---- MODULE Spec2Model ----
(***************************************************************************)
(* Remik (Polish Rummy): the meld classifier and the round state machine   *)
(* of the offline client engine (src/engine/gameState.js, melds.js,        *)
(* card.js, deck.js) and of the authoritative server (gameServer.cjs).     *)
(*                                                                         *)
(* Indices are 0-based as in the JavaScript (currentPlayerIndex, meld and  *)
(* card positions); TLA+ sequences are 1-based, so element i of a JS array *)
(* is seq[i + 1].  null is NullCard for a card and NoPlayer for a player   *)
(* index.  Suits are written "S", "H", "D", "C".                           *)
(***************************************************************************)
EXTENDS Integers, Sequences, FiniteSets, TLC

VARIABLES
    st,             \* the round state aggregate (gameState / room.gameState)
    openedBefore,   \* history: hasOpened of the current player when the turn began
    turns,          \* history: the number of turns that have ended
    pf              \* the card list handed to the classifier and the result it gave

vars == <<st, openedBefore, turns, pf>>

(***************************************************************************)
(* Bounds of the model.                                                    *)
(***************************************************************************)
\* Math.random() is explored at the values k / RandomGrain, k in 0..RandomGrain-1.
RandomGrain == 2
\* nextRound is explored while roundNumber < MaxRounds.
MaxRounds == 3
\* the game is explored until MaxTurns turns have ended.
MaxTurns == 4
\* an id group (playMelds, extendMeld) holds at most MaxGroupLen ids.
MaxGroupLen == 3
\* the pure functions are checked on card lists of at most MaxCards cards.
MaxCards == 4

\* The deck of the model: createDeck's loops run over these suits and ranks.
DeckSuits == <<"S">>
DeckRanks == <<"A", "Q", "K">>

(***************************************************************************)
(* Card model (engine/card.js)                                             *)
(***************************************************************************)
RANKS == <<"A", "2", "3", "4", "5", "6", "7", "8", "9", "10", "J", "Q", "K">>
SUITS == <<"S", "H", "D", "C">>

NullCard == [id |-> 0, rank |-> "", suit |-> "", isJoker |-> FALSE]
NoPlayer == -1

rankIndex(rank) ==
    IF \E i \in 1..Len(RANKS) : RANKS[i] = rank
    THEN (CHOOSE i \in 1..Len(RANKS) : RANKS[i] = rank) - 1
    ELSE -1

POINT_VALUES(rank) ==
    CASE rank = "A" -> 11
      [] rank \in {"J", "Q", "K"} -> 10
      [] rank = "JOKER" -> 50
      [] rankIndex(rank) >= 1 -> rankIndex(rank) + 1
      [] OTHER -> 0

\* getCardValue with the ace worth 1 wherever it lies
getCardValueAceLow(card, lowAce) ==
    IF card.isJoker THEN POINT_VALUES("JOKER")
    ELSE IF card.rank = "A" THEN 1
    ELSE POINT_VALUES(card.rank)

getCardValue(card, lowAce) ==
    IF card.isJoker THEN POINT_VALUES("JOKER")
    ELSE IF card.rank = "A" /\ lowAce THEN 1
    ELSE POINT_VALUES(card.rank)

(***************************************************************************)
(* Array helpers                                                           *)
(***************************************************************************)
Map(seq, F(_)) == [i \in 1..Len(seq) |-> F(seq[i])]

RECURSIVE InsertSorted(_, _)
InsertSorted(sorted, x) ==
    IF sorted = <<>> THEN <<x>>
    ELSE IF x < Head(sorted) THEN <<x>> \o sorted
    ELSE <<Head(sorted)>> \o InsertSorted(Tail(sorted), x)

\* the sort left out: the list as it was given
SortAscLeftOut(seq) == seq

\* [...seq].sort((a, b) => a - b)
RECURSIVE SortAsc(_)
SortAsc(seq) ==
    IF seq = <<>> THEN <<>>
    ELSE InsertSorted(SortAsc(Tail(seq)), Head(seq))

MathMin(seq) == CHOOSE x \in {seq[i] : i \in 1..Len(seq)} :
                    \A y \in {seq[i] : i \in 1..Len(seq)} : x <= y
MathMax(seq) == CHOOSE x \in {seq[i] : i \in 1..Len(seq)} :
                    \A y \in {seq[i] : i \in 1..Len(seq)} : x >= y

RECURSIVE Flat(_)
Flat(seqs) == IF seqs = <<>> THEN <<>> ELSE Head(seqs) \o Flat(Tail(seqs))

RECURSIVE SumSeq(_)
SumSeq(seq) == IF seq = <<>> THEN 0 ELSE Head(seq) + SumSeq(Tail(seq))

IsNatural(c) == ~c.isJoker
CardRank(c) == c.rank
CardSuit(c) == c.suit
CardId(c) == c.id

(***************************************************************************)
(* Meld validation of the client engine (engine/melds.js)                  *)
(***************************************************************************)
aceHighIndex(rank) == IF rank = "A" THEN 13 ELSE rankIndex(rank)

LowIndexOf(c) == rankIndex(c.rank)
HighIndexOf(c) == aceHighIndex(c.rank)

\* canFitInRange with the ranks read as a ring: the naturals may also fit after
\* the ranks have been turned by two places, King next to Ace next to 2
canFitInRangeWrapping(naturalRanks, jokerCount, minRank, maxRank) ==
    LET turned == SortAsc([i \in 1..Len(naturalRanks) |-> (naturalRanks[i] + 2) % 13])
        Fits(ranks, lowest, highest) ==
            LET totalLen == Len(ranks) + jokerCount
                span == ranks[Len(ranks)] - ranks[1]
            IN  /\ span < totalLen
                /\ \A i \in 2..Len(ranks) : ranks[i] # ranks[i - 1]
                /\ \E start \in (ranks[1] - jokerCount)..ranks[1] :
                      /\ start >= lowest
                      /\ start + totalLen - 1 <= highest
                      /\ \A i \in 1..Len(ranks) :
                            ranks[i] >= start /\ ranks[i] <= start + totalLen - 1
    IN  Fits(naturalRanks, minRank, maxRank) \/ Fits(turned, 0, 12)

canFitInRange(naturalRanks, jokerCount, minRank, maxRank) ==
    LET totalLen == Len(naturalRanks) + jokerCount
        span == naturalRanks[Len(naturalRanks)] - naturalRanks[1]
        latestStart == naturalRanks[1]
        earliestStart == naturalRanks[1] - jokerCount
    IN  IF span >= totalLen THEN FALSE
        ELSE IF \E i \in 2..Len(naturalRanks) : naturalRanks[i] = naturalRanks[i - 1]
        THEN FALSE
        ELSE \E start \in earliestStart..latestStart :
                LET end == start + totalLen - 1
                IN  /\ start >= minRank
                    /\ end <= maxRank
                    /\ \A i \in 1..Len(naturalRanks) :
                          ~(naturalRanks[i] < start \/ naturalRanks[i] > end)

\* the sorted rank indices isValidSequence hands to canFitInRange
SortedRanks(naturals, Index(_)) == SortAsc(Map(naturals, Index))

isValidSequence(cards) ==
    IF Len(cards) < 3 THEN FALSE
    ELSE
    LET naturals == SelectSeq(cards, IsNatural)
        jokerCount == Len(cards) - Len(naturals)
    IN  IF Len(naturals) = 0 THEN FALSE
        ELSE IF ~(\A i \in 1..Len(naturals) : naturals[i].suit = naturals[1].suit) THEN FALSE
        ELSE IF jokerCount > Len(naturals) + 1 THEN FALSE
        ELSE
        LET naturalRanksLow == SortedRanks(naturals, LowIndexOf)
            naturalRanksHigh == SortedRanks(naturals, HighIndexOf)
            aceLowValid == canFitInRange(naturalRanksLow, jokerCount, 0, 12)
            aceHighValid == canFitInRange(naturalRanksHigh, jokerCount, 1, 13)
        IN  aceLowValid \/ aceHighValid

\* isValidGroup without the test for duplicate suits
isValidGroupAnySuits(cards) ==
    IF Len(cards) < 3 \/ Len(cards) > 4 THEN FALSE
    ELSE
    LET naturals == SelectSeq(cards, IsNatural)
        jokerCount == Len(cards) - Len(naturals)
    IN  IF Len(naturals) = 0 THEN FALSE
        ELSE IF Len(naturals) < jokerCount THEN FALSE
        ELSE \A i \in 1..Len(naturals) : naturals[i].rank = naturals[1].rank

isValidGroup(cards) ==
    IF Len(cards) < 3 \/ Len(cards) > 4 THEN FALSE
    ELSE
    LET naturals == SelectSeq(cards, IsNatural)
        jokerCount == Len(cards) - Len(naturals)
    IN  IF Len(naturals) = 0 THEN FALSE
        ELSE IF Len(naturals) < jokerCount THEN FALSE
        ELSE IF ~(\A i \in 1..Len(naturals) : naturals[i].rank = naturals[1].rank) THEN FALSE
        ELSE Cardinality({naturals[i].suit : i \in 1..Len(naturals)}) = Len(naturals)

\* 'sequence' | 'group' | false, false written "invalid"
classifyMeld(cards) ==
    IF isValidSequence(cards) THEN "sequence"
    ELSE IF isValidGroup(cards) THEN "group"
    ELSE "invalid"

isMeldLowAce(meld) ==
    LET naturals == SelectSeq(meld, IsNatural)
    IN  IF ~(\E i \in 1..Len(naturals) : naturals[i].rank = "A") THEN FALSE
        ELSE IF ~isValidSequence(meld) THEN FALSE
        ELSE
        LET naturalRanksLow == SortedRanks(naturals, LowIndexOf)
            naturalRanksHigh == SortedRanks(naturals, HighIndexOf)
            jokerCount == Len(meld) - Len(naturals)
            fitsLow == canFitInRange(naturalRanksLow, jokerCount, 0, 12)
            fitsHigh == canFitInRange(naturalRanksHigh, jokerCount, 1, 13)
        IN  fitsLow /\ ~fitsHigh

MeldPoints(meld) ==
    LET lowAce == isMeldLowAce(meld)
    IN  SumSeq([i \in 1..Len(meld) |->
                   getCardValue(meld[i], lowAce /\ meld[i].rank = "A")])

calculateMeldsPoints(melds) == SumSeq(Map(melds, MeldPoints))

\* longestRun of hasPureSubRun: run counts consecutive steps of +1 in the sorted
\* indices; an equal neighbour keeps the count, any other step resets it to 1.
RECURSIVE longestRunFrom(_, _, _)
longestRunFrom(sorted, i, run) ==
    IF i > Len(sorted) THEN FALSE
    ELSE IF sorted[i] = sorted[i - 1] + 1
         THEN IF run + 1 >= 3 THEN TRUE ELSE longestRunFrom(sorted, i + 1, run + 1)
         ELSE IF sorted[i] # sorted[i - 1]
              THEN longestRunFrom(sorted, i + 1, 1)
              ELSE longestRunFrom(sorted, i + 1, run)

longestRun(indices) == longestRunFrom(SortAsc(indices), 2, 1)

hasPureSubRun(naturals) ==
    IF Len(naturals) < 3 THEN FALSE
    ELSE IF longestRun(Map(naturals, LowIndexOf)) THEN TRUE
    ELSE IF longestRun(Map(naturals, HighIndexOf)) THEN TRUE
    ELSE FALSE

\* isValidOpening with the points counted before the pure sub-run is looked for
isValidOpeningPointsFirst(melds, openRequirement) ==
    IF Len(melds) = 0
    THEN [valid |-> FALSE, reason |-> "no meld"]
    ELSE IF \E i \in 1..Len(melds) : classifyMeld(melds[i]) = "invalid"
    THEN [valid |-> FALSE, reason |-> "invalid meld"]
    ELSE IF calculateMeldsPoints(melds) < openRequirement
    THEN [valid |-> FALSE, reason |-> "insufficient points"]
    ELSE IF ~(\E i \in 1..Len(melds) :
                 isValidSequence(melds[i]) /\ hasPureSubRun(SelectSeq(melds[i], IsNatural)))
    THEN [valid |-> FALSE, reason |-> "no pure sub-run"]
    ELSE [valid |-> TRUE, reason |-> ""]

isValidOpening(melds, openRequirement) ==
    IF Len(melds) = 0
    THEN [valid |-> FALSE, reason |-> "no meld"]
    ELSE IF \E i \in 1..Len(melds) : classifyMeld(melds[i]) = "invalid"
    THEN [valid |-> FALSE, reason |-> "invalid meld"]
    ELSE IF ~(\E i \in 1..Len(melds) :
                 isValidSequence(melds[i]) /\ hasPureSubRun(SelectSeq(melds[i], IsNatural)))
    THEN [valid |-> FALSE, reason |-> "no pure sub-run"]
    ELSE IF calculateMeldsPoints(melds) < openRequirement
    THEN [valid |-> FALSE, reason |-> "insufficient points"]
    ELSE [valid |-> TRUE, reason |-> ""]

\* canExtendMeld without any test of the combined cards
canExtendMeldUnchecked(existingMeld, newCards, position) == TRUE

canExtendMeld(existingMeld, newCards, position) ==
    LET combined == IF position = "start" THEN newCards \o existingMeld
                    ELSE existingMeld \o newCards
    IN  IF classifyMeld(combined) = "invalid" THEN FALSE
        ELSE IF ~isValidSequence(combined) THEN TRUE
        ELSE
        LET existingNaturals == SelectSeq(existingMeld, IsNatural)
            newNaturals == SelectSeq(newCards, IsNatural)
        IN  IF ~(Len(existingNaturals) > 0 /\ Len(newNaturals) > 0) THEN TRUE
            ELSE
            LET exLow == Map(existingNaturals, LowIndexOf)
                newLow == Map(newNaturals, LowIndexOf)
                exHigh == Map(existingNaturals, HighIndexOf)
                newHigh == Map(newNaturals, HighIndexOf)
            IN  IF position = "end"
                THEN LET lowOk == MathMin(newLow) > MathMax(exLow)
                         highOk == MathMin(newHigh) > MathMax(exHigh)
                     IN  ~(~lowOk /\ ~highOk)
                ELSE LET lowOk == MathMax(newLow) < MathMin(exLow)
                         highOk == MathMax(newHigh) < MathMin(exHigh)
                     IN  ~(~lowOk /\ ~highOk)

(***************************************************************************)
(* Deck creation, shuffling and dealing (engine/deck.js)                   *)
(***************************************************************************)
MathMaxOf(a, b) == IF a >= b THEN a ELSE b
MathMinOf(a, b) == IF a <= b THEN a ELSE b

\* Math.floor(Math.random() * n), Math.random() being rnd / RandomGrain
RandomValues == 0..(RandomGrain - 1)
RandomIndex(rnd, n) == (rnd * n) \div RandomGrain

\* the natural cards of one copy, in the order of the suit and rank loops
CopyCards(copy) ==
    [k \in 1..(Len(DeckSuits) * Len(DeckRanks)) |->
        [id |-> (copy - 1) * Len(DeckSuits) * Len(DeckRanks) + k,
         rank |-> DeckRanks[((k - 1) % Len(DeckRanks)) + 1],
         suit |-> DeckSuits[((k - 1) \div Len(DeckRanks)) + 1],
         isJoker |-> FALSE]]

createDeck(jokerCount) ==
    LET naturals == CopyCards(1) \o CopyCards(2)
        clampedJokers == MathMaxOf(0, MathMinOf(10, jokerCount))
    IN  naturals \o [i \in 1..clampedJokers |->
                        [id |-> Len(naturals) + i, rank |-> "JOKER",
                         suit |-> "", isJoker |-> TRUE]]

Swap(deck, a, b) == [deck EXCEPT ![a] = deck[b], ![b] = deck[a]]

\* Fisher-Yates from JS index i down to 1
RECURSIVE shuffleFrom(_, _, _)
shuffleFrom(deck, i, rnd) ==
    IF i <= 0 THEN deck
    ELSE shuffleFrom(Swap(deck, i + 1, RandomIndex(rnd, i + 1) + 1), i - 1, rnd)

shuffleDeck(deck, rnd) == shuffleFrom(deck, Len(deck) - 1, rnd)

\* step k of the round-robin deal: round k \div n, player k % n
RECURSIVE dealFrom(_, _, _, _)
dealFrom(hands, deck, counts, k) ==
    LET n == Len(counts)
        round == k \div n
        p == k % n
    IN  IF round >= MathMax(counts) THEN [hands |-> hands, stock |-> deck]
        ELSE IF round < counts[p + 1] /\ Len(deck) > 0
             THEN dealFrom([hands EXCEPT ![p + 1] = Append(@, Head(deck))],
                           Tail(deck), counts, k + 1)
             ELSE dealFrom(hands, deck, counts, k + 1)

dealCards(deck, counts) == dealFrom([i \in 1..Len(counts) |-> <<>>], deck, counts, 0)

(***************************************************************************)
(* Round state machine of the client engine (engine/gameState.js)          *)
(***************************************************************************)
DRAW == "DRAW"
MELD == "MELD"
DISCARD == "DISCARD"
ROUND_OVER == "ROUND_OVER"
GAME_OVER == "GAME_OVER"

\* lastAction: null, or the type, source, player and card of the last action (the
\* cards of a meld, an extension or a joker swap are left out)
NoAction == [type |-> "none", source |-> "", playerIndex |-> NoPlayer, card |-> NullCard]

Ok(state) == [state |-> state, success |-> TRUE, reason |-> ""]
Fail(state, reason) == [state |-> state, success |-> FALSE, reason |-> reason]

HandIds(hand) == {hand[i].id : i \in 1..Len(hand)}
IsCard(c) == c # NullCard

\* hand.find(c => c.id === id), undefined written NullCard
FindById(hand, id) ==
    IF \E i \in 1..Len(hand) : hand[i].id = id
    THEN hand[CHOOSE i \in 1..Len(hand) :
                 hand[i].id = id /\ \A j \in 1..(i - 1) : hand[j].id # id]
    ELSE NullCard

\* ids.map(id => hand.find(...)).filter(Boolean)
ResolveIds(hand, ids) ==
    LET Find(id) == FindById(hand, id)
    IN  SelectSeq(Map(ids, Find), IsCard)

WithoutIds(hand, ids) ==
    LET Keep(c) == c.id \notin ids
    IN  SelectSeq(hand, Keep)

HandPenalty(hand) ==
    SumSeq([i \in 1..Len(hand) |-> getCardValue(hand[i], FALSE)])

createGame(numPlayers, config) ==
    [players |-> [i \in 1..numPlayers |->
                     [hand |-> <<>>, hasOpened |-> FALSE, score |-> 0,
                      eliminated |-> FALSE]],
     stock |-> <<>>,
     discardPile |-> <<>>,
     tableMelds |-> <<>>,
     currentPlayerIndex |-> 0,
     phase |-> DRAW,
     roundNumber |-> 1,
     startingPlayerIndex |-> 0,
     stockReshuffleCount |-> 0,
     drawnFromDiscard |-> FALSE,
     drawnCard |-> NullCard,
     roundWinner |-> NoPlayer,
     lastAction |-> NoAction,
     config |-> config]

\* startRound without the reset of the hasOpened flags
startRoundKeepingFlags(state, rnd) ==
    LET cfg == state.config
        deck == shuffleDeck(createDeck(cfg.JOKER_COUNT), rnd)
        handFirst == IF cfg.HAND_SIZE_FIRST # 0 THEN cfg.HAND_SIZE_FIRST ELSE 14
        handOther == IF cfg.HAND_SIZE_OTHER # 0 THEN cfg.HAND_SIZE_OTHER ELSE 13
        counts == [i \in 1..Len(state.players) |->
                      IF i - 1 = state.startingPlayerIndex THEN handFirst ELSE handOther]
        dealt == dealCards(deck, counts)
    IN  [state EXCEPT
            !.players = [i \in 1..Len(state.players) |->
                            [state.players[i] EXCEPT !.hand = dealt.hands[i]]],
            !.stock = dealt.stock,
            !.discardPile = <<>>,
            !.tableMelds = <<>>,
            !.currentPlayerIndex = state.startingPlayerIndex,
            !.phase = DISCARD,
            !.stockReshuffleCount = 0,
            !.drawnFromDiscard = FALSE,
            !.drawnCard = NullCard,
            !.roundWinner = NoPlayer,
            !.lastAction = NoAction]

startRound(state, rnd) ==
    LET cfg == state.config
        deck == shuffleDeck(createDeck(cfg.JOKER_COUNT), rnd)
        handFirst == IF cfg.HAND_SIZE_FIRST # 0 THEN cfg.HAND_SIZE_FIRST ELSE 14
        handOther == IF cfg.HAND_SIZE_OTHER # 0 THEN cfg.HAND_SIZE_OTHER ELSE 13
        counts == [i \in 1..Len(state.players) |->
                      IF i - 1 = state.startingPlayerIndex THEN handFirst ELSE handOther]
        dealt == dealCards(deck, counts)
    IN  [state EXCEPT
            !.players = [i \in 1..Len(state.players) |->
                            [state.players[i] EXCEPT !.hand = dealt.hands[i],
                                                     !.hasOpened = FALSE]],
            !.stock = dealt.stock,
            !.discardPile = <<>>,
            !.tableMelds = <<>>,
            !.currentPlayerIndex = state.startingPlayerIndex,
            !.phase = DISCARD,
            !.stockReshuffleCount = 0,
            !.drawnFromDiscard = FALSE,
            !.drawnCard = NullCard,
            !.roundWinner = NoPlayer,
            !.lastAction = NoAction]

\* the players after endRound has scored the round and marked the eliminated
ScoredPlayers(state, winnerIndex) ==
    LET isRemik == winnerIndex # NoPlayer /\ ~state.players[winnerIndex + 1].hasOpened
        scored == [i \in 1..Len(state.players) |->
                      IF i - 1 = winnerIndex
                      THEN [state.players[i] EXCEPT
                               !.score = @ + (IF isRemik THEN -20 ELSE -10)]
                      ELSE [state.players[i] EXCEPT
                               !.score = @ + (IF isRemik
                                              THEN HandPenalty(state.players[i].hand) * 2
                                              ELSE HandPenalty(state.players[i].hand))]]
        pointsLimit == IF state.config.POINTS_LIMIT # 0 THEN state.config.POINTS_LIMIT ELSE 501
    IN  [i \in 1..Len(scored) |->
            IF scored[i].score >= pointsLimit
            THEN [scored[i] EXCEPT !.eliminated = TRUE]
            ELSE scored[i]]

\* endRound with the game going on until nobody is left
endRoundUntilNobodyLeft(state, winnerIndex) ==
    LET marked == ScoredPlayers(state, winnerIndex)
        activePlayers == {i \in 1..Len(marked) : ~marked[i].eliminated}
    IN  [state EXCEPT
            !.roundWinner = winnerIndex,
            !.players = marked,
            !.phase = IF Cardinality(activePlayers) < 1 THEN GAME_OVER ELSE ROUND_OVER]

endRound(state, winnerIndex) ==
    LET marked == ScoredPlayers(state, winnerIndex)
        activePlayers == {i \in 1..Len(marked) : ~marked[i].eliminated}
    IN  [state EXCEPT
            !.roundWinner = winnerIndex,
            !.players = marked,
            !.phase = IF Cardinality(activePlayers) <= 1 THEN GAME_OVER ELSE ROUND_OVER]

\* reshuffleIfNeeded with the top discard card shuffled into the stock as well
reshuffleWholePile(state, rnd) ==
    IF Len(state.stock) = 0 /\ Len(state.discardPile) > 1
    THEN LET counted == [state EXCEPT !.stockReshuffleCount = @ + 1]
         IN  IF counted.stockReshuffleCount >= 2
             THEN endRound(counted, NoPlayer)
             ELSE [counted EXCEPT !.stock = shuffleDeck(counted.discardPile, rnd),
                                  !.discardPile = <<>>]
    ELSE state

reshuffleIfNeeded(state, rnd) ==
    IF Len(state.stock) = 0 /\ Len(state.discardPile) > 1
    THEN LET counted == [state EXCEPT !.stockReshuffleCount = @ + 1]
         IN  IF counted.stockReshuffleCount >= 2
             THEN endRound(counted, NoPlayer)
             ELSE LET topDiscard == counted.discardPile[Len(counted.discardPile)]
                      rest == SubSeq(counted.discardPile, 1, Len(counted.discardPile) - 1)
                  IN  [counted EXCEPT !.stock = shuffleDeck(rest, rnd),
                                      !.discardPile = <<topDiscard>>]
    ELSE state

drawFromStock(state, rnd) ==
    IF state.phase # DRAW THEN Fail(state, "Not in draw phase.")
    ELSE
    LET s1 == reshuffleIfNeeded(state, rnd)
    IN  IF Len(s1.stock) = 0
        THEN Fail(endRound(s1, NoPlayer), "Stock exhausted")
        ELSE
        LET card == s1.stock[Len(s1.stock)]
            cur == s1.currentPlayerIndex
        IN  Ok([s1 EXCEPT
                   !.stock = SubSeq(s1.stock, 1, Len(s1.stock) - 1),
                   !.players[cur + 1].hand = Append(@, card),
                   !.drawnFromDiscard = FALSE,
                   !.drawnCard = card,
                   !.phase = MELD,
                   !.lastAction = [type |-> "draw", source |-> "stock", playerIndex |-> cur,
                                   card |-> card]])

\* drawFromDiscard with the card going to the hand of the player after the current one
drawFromDiscardForNext(state) ==
    IF state.phase # DRAW THEN Fail(state, "Not in draw phase.")
    ELSE IF Len(state.discardPile) = 0 THEN Fail(state, "Discard pile is empty.")
    ELSE
    LET card == state.discardPile[Len(state.discardPile)]
        cur == state.currentPlayerIndex
        next == (cur + 1) % Len(state.players)
    IN  Ok([state EXCEPT
               !.discardPile = SubSeq(state.discardPile, 1, Len(state.discardPile) - 1),
               !.players[next + 1].hand = Append(@, card),
               !.drawnFromDiscard = TRUE,
               !.drawnCard = card,
               !.phase = MELD,
               !.lastAction = [type |-> "draw", source |-> "discard", playerIndex |-> cur,
                               card |-> card]])

drawFromDiscard(state) ==
    IF state.phase # DRAW THEN Fail(state, "Not in draw phase.")
    ELSE IF Len(state.discardPile) = 0 THEN Fail(state, "Discard pile is empty.")
    ELSE
    LET card == state.discardPile[Len(state.discardPile)]
        cur == state.currentPlayerIndex
    IN  Ok([state EXCEPT
               !.discardPile = SubSeq(state.discardPile, 1, Len(state.discardPile) - 1),
               !.players[cur + 1].hand = Append(@, card),
               !.drawnFromDiscard = TRUE,
               !.drawnCard = card,
               !.phase = MELD,
               !.lastAction = [type |-> "draw", source |-> "discard", playerIndex |-> cur,
                               card |-> card]])

\* playMelds without the opening requirement
playMeldsUngated(state, meldCardIds) ==
    IF state.phase # MELD THEN Fail(state, "Not in meld phase.")
    ELSE
    LET playerIdx == state.currentPlayerIndex
        player == state.players[playerIdx + 1]
        melds == [g \in 1..Len(meldCardIds) |-> ResolveIds(player.hand, meldCardIds[g])]
        cfg == state.config
    IN  IF \E i \in 1..Len(melds) : classifyMeld(melds[i]) = "invalid"
        THEN Fail(state, "Meld is not valid.")
        ELSE
        LET allMeldCardIds == HandIds(Flat(melds))
            newMelds == [g \in 1..Len(melds) |-> [cards |-> melds[g], owner |-> playerIdx]]
            played == [state EXCEPT
                          !.players[playerIdx + 1].hasOpened = TRUE,
                          !.players[playerIdx + 1].hand = WithoutIds(@, allMeldCardIds),
                          !.tableMelds = @ \o newMelds,
                          !.lastAction = [type |-> "meld", source |-> "",
                                          playerIndex |-> playerIdx, card |-> NullCard]]
        IN  IF Len(played.players[playerIdx + 1].hand) = 0
            THEN Ok(endRound(played, playerIdx))
            ELSE Ok(played)

playMelds(state, meldCardIds) ==
    IF state.phase # MELD THEN Fail(state, "Not in meld phase.")
    ELSE
    LET playerIdx == state.currentPlayerIndex
        player == state.players[playerIdx + 1]
        melds == [g \in 1..Len(meldCardIds) |-> ResolveIds(player.hand, meldCardIds[g])]
        cfg == state.config
    IN  IF \E i \in 1..Len(melds) : classifyMeld(melds[i]) = "invalid"
        THEN Fail(state, "Meld is not valid.")
        ELSE IF /\ ~player.hasOpened
                /\ cfg.REQUIRE_OPENING
                /\ ~isValidOpening(melds, cfg.OPEN_REQUIREMENT).valid
        THEN Fail(state, isValidOpening(melds, cfg.OPEN_REQUIREMENT).reason)
        ELSE
        LET allMeldCardIds == HandIds(Flat(melds))
            newMelds == [g \in 1..Len(melds) |-> [cards |-> melds[g], owner |-> playerIdx]]
            played == [state EXCEPT
                          !.players[playerIdx + 1].hasOpened = TRUE,
                          !.players[playerIdx + 1].hand = WithoutIds(@, allMeldCardIds),
                          !.tableMelds = @ \o newMelds,
                          !.lastAction = [type |-> "meld", source |-> "",
                                          playerIndex |-> playerIdx, card |-> NullCard]]
        IN  IF Len(played.players[playerIdx + 1].hand) = 0
            THEN Ok(endRound(played, playerIdx))
            ELSE Ok(played)

\* addToTableMeld with the new cards laid over the end of the meld
addToTableMeldInPlace(state, tableMeldIndex, cardIds, position) ==
    IF state.phase # MELD THEN Fail(state, "Not in meld phase.")
    ELSE
    LET playerIdx == state.currentPlayerIndex
        player == state.players[playerIdx + 1]
    IN  IF ~player.hasOpened THEN Fail(state, "You must open first.")
        ELSE IF tableMeldIndex < 0 \/ tableMeldIndex >= Len(state.tableMelds)
        THEN Fail(state, "Invalid meld index.")
        ELSE
        LET cards == ResolveIds(player.hand, cardIds)
            existing == state.tableMelds[tableMeldIndex + 1].cards
        IN  IF Len(cards) # Len(cardIds) THEN Fail(state, "Some cards not found in hand.")
            ELSE IF ~canExtendMeld(existing, cards, position)
            THEN Fail(state, "Adding these cards would make the meld invalid.")
            ELSE
            LET idsToRemove == {cardIds[i] : i \in 1..Len(cardIds)}
                extended == [state EXCEPT
                                !.tableMelds[tableMeldIndex + 1].cards =
                                    IF position = "start" THEN cards \o Tail(existing)
                                    ELSE SubSeq(existing, 1, Len(existing) - 1) \o cards,
                                !.players[playerIdx + 1].hand = WithoutIds(@, idsToRemove),
                                !.lastAction = [type |-> "extend", source |-> "",
                                                playerIndex |-> playerIdx,
                                                card |-> NullCard]]
            IN  IF Len(extended.players[playerIdx + 1].hand) = 0
                THEN Ok(endRound(extended, playerIdx))
                ELSE Ok(extended)

addToTableMeld(state, tableMeldIndex, cardIds, position) ==
    IF state.phase # MELD THEN Fail(state, "Not in meld phase.")
    ELSE
    LET playerIdx == state.currentPlayerIndex
        player == state.players[playerIdx + 1]
    IN  IF ~player.hasOpened THEN Fail(state, "You must open first.")
        ELSE IF tableMeldIndex < 0 \/ tableMeldIndex >= Len(state.tableMelds)
        THEN Fail(state, "Invalid meld index.")
        ELSE
        LET cards == ResolveIds(player.hand, cardIds)
            existing == state.tableMelds[tableMeldIndex + 1].cards
        IN  IF Len(cards) # Len(cardIds) THEN Fail(state, "Some cards not found in hand.")
            ELSE IF ~canExtendMeld(existing, cards, position)
            THEN Fail(state, "Adding these cards would make the meld invalid.")
            ELSE
            LET idsToRemove == {cardIds[i] : i \in 1..Len(cardIds)}
                extended == [state EXCEPT
                                !.tableMelds[tableMeldIndex + 1].cards =
                                    IF position = "start" THEN cards \o existing
                                    ELSE existing \o cards,
                                !.players[playerIdx + 1].hand = WithoutIds(@, idsToRemove),
                                !.lastAction = [type |-> "extend", source |-> "",
                                                playerIndex |-> playerIdx,
                                                card |-> NullCard]]
            IN  IF Len(extended.players[playerIdx + 1].hand) = 0
                THEN Ok(endRound(extended, playerIdx))
                ELSE Ok(extended)

\* swapJoker with the joker leaving the game instead of going to the hand
swapJokerOffTheTable(state, tableMeldIndex, jokerPositionInMeld, cardId) ==
    IF state.phase # MELD THEN Fail(state, "Not in meld phase.")
    ELSE
    LET playerIdx == state.currentPlayerIndex
        player == state.players[playerIdx + 1]
    IN  IF ~player.hasOpened THEN Fail(state, "You must open first.")
        ELSE IF tableMeldIndex < 0 \/ tableMeldIndex >= Len(state.tableMelds)
        THEN Fail(state, "Invalid meld index.")
        ELSE
        LET meld == state.tableMelds[tableMeldIndex + 1].cards
            hasSlot == jokerPositionInMeld >= 0 /\ jokerPositionInMeld < Len(meld)
            handCard == FindById(player.hand, cardId)
        IN  IF ~hasSlot \/ ~meld[jokerPositionInMeld + 1].isJoker
            THEN Fail(state, "No joker at that position.")
            ELSE IF handCard = NullCard THEN Fail(state, "Card not in hand.")
            ELSE IF handCard.isJoker THEN Fail(state, "Cannot swap a joker with a joker.")
            ELSE IF classifyMeld([meld EXCEPT ![jokerPositionInMeld + 1] = handCard]) = "invalid"
            THEN Fail(state, "That card does not match.")
            ELSE Ok([state EXCEPT
                        !.tableMelds[tableMeldIndex + 1].cards[jokerPositionInMeld + 1] = handCard,
                        !.players[playerIdx + 1].hand = WithoutIds(@, {cardId}),
                        !.lastAction = [type |-> "joker_swap", source |-> "",
                                        playerIndex |-> playerIdx, card |-> NullCard]])

swapJoker(state, tableMeldIndex, jokerPositionInMeld, cardId) ==
    IF state.phase # MELD THEN Fail(state, "Not in meld phase.")
    ELSE
    LET playerIdx == state.currentPlayerIndex
        player == state.players[playerIdx + 1]
    IN  IF ~player.hasOpened THEN Fail(state, "You must open first.")
        ELSE IF tableMeldIndex < 0 \/ tableMeldIndex >= Len(state.tableMelds)
        THEN Fail(state, "Invalid meld index.")
        ELSE
        LET meld == state.tableMelds[tableMeldIndex + 1].cards
            hasSlot == jokerPositionInMeld >= 0 /\ jokerPositionInMeld < Len(meld)
            handCard == FindById(player.hand, cardId)
        IN  IF ~hasSlot \/ ~meld[jokerPositionInMeld + 1].isJoker
            THEN Fail(state, "No joker at that position.")
            ELSE IF handCard = NullCard THEN Fail(state, "Card not in hand.")
            ELSE IF handCard.isJoker THEN Fail(state, "Cannot swap a joker with a joker.")
            ELSE IF classifyMeld([meld EXCEPT ![jokerPositionInMeld + 1] = handCard]) = "invalid"
            THEN Fail(state, "That card does not match.")
            ELSE Ok([state EXCEPT
                        !.tableMelds[tableMeldIndex + 1].cards[jokerPositionInMeld + 1] = handCard,
                        !.players[playerIdx + 1].hand =
                            Append(WithoutIds(@, {cardId}), meld[jokerPositionInMeld + 1]),
                        !.lastAction = [type |-> "joker_swap", source |-> "",
                                        playerIndex |-> playerIdx, card |-> NullCard]])

\* the next index after the current player, skipping eliminated players
RECURSIVE skipEliminated(_, _)
skipEliminated(state, next) ==
    IF state.players[next + 1].eliminated /\ next # state.currentPlayerIndex
    THEN skipEliminated(state, (next + 1) % Len(state.players))
    ELSE next

\* advanceTurn without the skip over eliminated players
advanceTurnToNeighbour(state) ==
    [state EXCEPT
        !.currentPlayerIndex = (state.currentPlayerIndex + 1) % Len(state.players),
        !.phase = DRAW,
        !.drawnFromDiscard = FALSE,
        !.drawnCard = NullCard]

advanceTurn(state) ==
    [state EXCEPT
        !.currentPlayerIndex =
            skipEliminated(state, (state.currentPlayerIndex + 1) % Len(state.players)),
        !.phase = DRAW,
        !.drawnFromDiscard = FALSE,
        !.drawnCard = NullCard]

\* discard once the phase has been accepted
DiscardFromHand(state, cardId) ==
    LET playerIdx == state.currentPlayerIndex
        player == state.players[playerIdx + 1]
    IN  IF cardId \notin HandIds(player.hand) THEN Fail(state, "Card not in hand.")
        ELSE
        LET cardIndex == CHOOSE i \in 1..Len(player.hand) :
                            /\ player.hand[i].id = cardId
                            /\ \A j \in 1..(i - 1) : player.hand[j].id # cardId
            card == player.hand[cardIndex]
            thrown == [state EXCEPT
                          !.players[playerIdx + 1].hand =
                              SubSeq(@, 1, cardIndex - 1) \o SubSeq(@, cardIndex + 1, Len(@)),
                          !.discardPile = Append(@, card),
                          !.lastAction = [type |-> "discard", source |-> "",
                                          playerIndex |-> playerIdx, card |-> card]]
        IN  IF Len(thrown.players[playerIdx + 1].hand) = 0
            THEN Ok(endRound(thrown, playerIdx))
            ELSE Ok(advanceTurn(thrown))

\* discard without its phase check
discardInAnyPhase(state, cardId) == DiscardFromHand(state, cardId)

discard(state, cardId) ==
    IF state.phase # MELD /\ state.phase # DISCARD
    THEN Fail(state, "Not in meld/discard phase.")
    ELSE DiscardFromHand(state, cardId)

skipMeld(state) ==
    IF state.phase = MELD THEN [state EXCEPT !.phase = DISCARD] ELSE state

\* the starting player of the next round: the first not eliminated from `start` on
RECURSIVE skipEliminatedStart(_, _)
skipEliminatedStart(state, start) ==
    IF state.players[start + 1].eliminated
    THEN skipEliminatedStart(state, (start + 1) % Len(state.players))
    ELSE start

\* nextRound with the starting player rotated by one, eliminated or not
nextRoundToNeighbour(state, rnd) ==
    IF state.phase = GAME_OVER THEN state
    ELSE startRound(
            [state EXCEPT
                !.roundNumber = @ + 1,
                !.startingPlayerIndex = (state.startingPlayerIndex + 1) % Len(state.players)],
            rnd)

nextRound(state, rnd) ==
    IF state.phase = GAME_OVER THEN state
    ELSE startRound(
            [state EXCEPT
                !.roundNumber = @ + 1,
                !.startingPlayerIndex =
                    skipEliminatedStart(state,
                        (state.startingPlayerIndex + 1) % Len(state.players))],
            rnd)

(***************************************************************************)
(* Meld validation of the server (server/gameServer.cjs, inline engine)    *)
(***************************************************************************)
Srv_getCardValue(card, lowAce) ==
    IF card.isJoker THEN POINT_VALUES("JOKER")
    ELSE IF card.rank = "A" /\ lowAce THEN 1
    ELSE POINT_VALUES(card.rank)

Srv_aceHighIndex(rank) == IF rank = "A" THEN 13 ELSE rankIndex(rank)

Srv_LowIndexOf(c) == rankIndex(c.rank)
Srv_HighIndexOf(c) == Srv_aceHighIndex(c.rank)

\* the sequence is read in the order the cards are given: the first natural card
\* fixes the rank of position 0 and every later natural must sit at its own rank
Srv_trySequence(cards, naturalIndices, aceLow) ==
    IF \A i \in 1..Len(cards) : cards[i].isJoker THEN FALSE
    ELSE
    LET first == CHOOSE i \in 1..Len(cards) :
                    ~cards[i].isJoker /\ \A j \in 1..(i - 1) : cards[j].isJoker
        jokersBeforeFirst == first - 1
        currentRank == rankIndex(cards[first].rank) - jokersBeforeFirst
        adjIdx(c) == IF ~aceLow /\ rankIndex(c.rank) = 0 THEN 13 ELSE rankIndex(c.rank)
        startRank == currentRank
        endRank == currentRank + Len(cards) - 1
    IN  /\ \A i \in 0..(Len(cards) - 1) :
              LET expectedRank == currentRank + i
              IN  /\ ~(~aceLow /\ expectedRank > 12 /\ expectedRank # 13)
                  /\ ~(aceLow /\ expectedRank < 0)
                  /\ ~cards[i + 1].isJoker => adjIdx(cards[i + 1]) = expectedRank
        /\ IF aceLow THEN ~(startRank < 0 \/ endRank > 12)
           ELSE ~(startRank < 0 \/ endRank > 13)

Srv_isValidSequence(cards) ==
    IF Len(cards) < 3 THEN FALSE
    ELSE
    LET naturals == SelectSeq(cards, IsNatural)
    IN  IF Len(naturals) = 0 THEN FALSE
        ELSE IF ~(\A i \in 1..Len(naturals) : naturals[i].suit = naturals[1].suit) THEN FALSE
        ELSE IF \E i \in 1..(Len(cards) - 1) : cards[i].isJoker /\ cards[i + 1].isJoker
        THEN FALSE
        ELSE LET naturalIndices == Map(naturals, Srv_LowIndexOf)
             IN  \/ Srv_trySequence(cards, naturalIndices, FALSE)
                 \/ Srv_trySequence(cards, naturalIndices, TRUE)

Srv_isValidGroup(cards) ==
    IF Len(cards) < 3 \/ Len(cards) > 4 THEN FALSE
    ELSE
    LET naturals == SelectSeq(cards, IsNatural)
        jokers == Len(cards) - Len(naturals)
    IN  IF Len(naturals) = 0 THEN FALSE
        ELSE IF jokers > Len(naturals) THEN FALSE
        ELSE IF Cardinality({naturals[i].rank : i \in 1..Len(naturals)}) > 1 THEN FALSE
        ELSE Cardinality({naturals[i].suit : i \in 1..Len(naturals)}) = Len(naturals)

Srv_classifyMeld(cards) ==
    IF Srv_isValidSequence(cards) THEN "sequence"
    ELSE IF Srv_isValidGroup(cards) THEN "group"
    ELSE "invalid"

\* the points of one meld in calculateMeldsPoints; an invalid meld adds nothing
Srv_MeldPoints(meld) ==
    LET type == Srv_classifyMeld(meld)
        naturals == SelectSeq(meld, IsNatural)
        hasLowCards == \E i \in 1..Len(naturals) : rankIndex(naturals[i].rank) <= 2
        CardPoints(card) ==
            IF card.isJoker THEN 50
            ELSE IF type = "sequence" /\ card.rank = "A"
                 THEN (IF hasLowCards THEN 1 ELSE 11)
                 ELSE Srv_getCardValue(card, FALSE)
    IN  IF type = "invalid" THEN 0
        ELSE SumSeq([i \in 1..Len(meld) |-> CardPoints(meld[i])])

Srv_calculateMeldsPoints(melds) == SumSeq(Map(melds, Srv_MeldPoints))

Srv_hasPureSubRun(naturals) ==
    IF Len(naturals) < 3 THEN FALSE
    ELSE IF longestRun(Map(naturals, Srv_LowIndexOf)) THEN TRUE
    ELSE IF longestRun(Map(naturals, Srv_HighIndexOf)) THEN TRUE
    ELSE FALSE

Srv_isValidOpening(melds, openRequirement) ==
    IF \E i \in 1..Len(melds) : Srv_classifyMeld(melds[i]) = "invalid"
    THEN [valid |-> FALSE, reason |-> "invalid meld"]
    ELSE IF ~(\E i \in 1..Len(melds) :
                 /\ Srv_isValidSequence(melds[i])
                 /\ Srv_hasPureSubRun(SelectSeq(melds[i], IsNatural)))
    THEN [valid |-> FALSE, reason |-> "no pure sub-run"]
    ELSE IF Srv_calculateMeldsPoints(melds) < openRequirement
    THEN [valid |-> FALSE, reason |-> "insufficient points"]
    ELSE [valid |-> TRUE, reason |-> ""]

Srv_canExtendMeld(existingMeld, newCards, position) ==
    LET combined == IF position = "start" THEN newCards \o existingMeld
                    ELSE existingMeld \o newCards
    IN  IF Srv_classifyMeld(combined) = "invalid" THEN FALSE
        ELSE IF ~Srv_isValidSequence(combined) THEN TRUE
        ELSE
        LET existingNaturals == SelectSeq(existingMeld, IsNatural)
            newNaturals == SelectSeq(newCards, IsNatural)
        IN  IF ~(Len(existingNaturals) > 0 /\ Len(newNaturals) > 0) THEN TRUE
            ELSE
            LET exLow == Map(existingNaturals, Srv_LowIndexOf)
                newLow == Map(newNaturals, Srv_LowIndexOf)
                exHigh == Map(existingNaturals, Srv_HighIndexOf)
                newHigh == Map(newNaturals, Srv_HighIndexOf)
            IN  IF position = "end"
                THEN LET lowOk == MathMin(newLow) > MathMax(exLow)
                         highOk == MathMin(newHigh) > MathMax(exHigh)
                     IN  ~(~lowOk /\ ~highOk)
                ELSE LET lowOk == MathMax(newLow) < MathMin(exLow)
                         highOk == MathMax(newHigh) < MathMin(exHigh)
                     IN  ~(~lowOk /\ ~highOk)

(***************************************************************************)
(* Round state machine of the server (server/gameServer.cjs).  The state   *)
(* is room.gameState; a player's id is their index in room.players.        *)
(***************************************************************************)
\* the server's deck takes jokerCount as it is given
Srv_createDeck(jokerCount) ==
    LET naturals == CopyCards(1) \o CopyCards(2)
    IN  naturals \o [i \in 1..jokerCount |->
                        [id |-> Len(naturals) + i, rank |-> "JOKER",
                         suit |-> "", isJoker |-> TRUE]]

Srv_shuffleDeck(deck, rnd) == shuffleFrom(deck, Len(deck) - 1, rnd)

Srv_dealCards(deck, counts) == dealFrom([i \in 1..Len(counts) |-> <<>>], deck, counts, 0)

Srv_startRound(state, rnd) ==
    LET config == state.config
        deck == Srv_shuffleDeck(Srv_createDeck(config.jokerCount), rnd)
        counts == [i \in 1..Len(state.players) |->
                      IF i - 1 = state.startingPlayerIndex THEN config.handSizeFirst
                      ELSE config.handSizeOther]
        dealt == Srv_dealCards(deck, counts)
    IN  [state EXCEPT
            !.players = [i \in 1..Len(state.players) |->
                            [state.players[i] EXCEPT !.hand = dealt.hands[i],
                                                     !.hasOpened = FALSE]],
            !.stock = dealt.stock,
            !.discardPile = <<>>,
            !.tableMelds = <<>>,
            !.currentPlayerIndex = state.startingPlayerIndex,
            !.phase = DISCARD,
            !.stockReshuffleCount = 0,
            !.drawnFromDiscard = FALSE,
            !.drawnCard = NullCard,
            !.roundWinner = NoPlayer,
            !.lastAction = NoAction]

\* startGame for a room of numPlayers players whose settings are `settings`
startGame(numPlayers, settings, rnd) ==
    Srv_startRound(
        [players |-> [i \in 1..numPlayers |->
                         [hand |-> <<>>, hasOpened |-> FALSE, score |-> 0,
                          eliminated |-> FALSE]],
         stock |-> <<>>,
         discardPile |-> <<>>,
         tableMelds |-> <<>>,
         currentPlayerIndex |-> 0,
         phase |-> DRAW,
         roundNumber |-> 1,
         startingPlayerIndex |-> 0,
         stockReshuffleCount |-> 0,
         drawnFromDiscard |-> FALSE,
         drawnCard |-> NullCard,
         roundWinner |-> NoPlayer,
         lastAction |-> NoAction,
         config |-> [pointsLimit |-> IF settings.POINTS_LIMIT # 0
                                     THEN settings.POINTS_LIMIT ELSE 501,
                     jokerCount |-> settings.JOKER_COUNT,
                     handSizeFirst |-> IF settings.HAND_SIZE_FIRST # 0
                                       THEN settings.HAND_SIZE_FIRST ELSE 14,
                     handSizeOther |-> IF settings.HAND_SIZE_OTHER # 0
                                       THEN settings.HAND_SIZE_OTHER ELSE 13,
                     openRequirement |-> IF settings.OPEN_REQUIREMENT # 0
                                         THEN settings.OPEN_REQUIREMENT ELSE 51,
                     requireOpening |-> settings.REQUIRE_OPENING]],
        rnd)

Srv_endRound(state, winnerIndex, isRemik) ==
    LET pointsLimit == IF state.config.pointsLimit # 0 THEN state.config.pointsLimit ELSE 501
        Penalty(hand) == SumSeq([k \in 1..Len(hand) |-> Srv_getCardValue(hand[k], FALSE)])
        scored == [i \in 1..Len(state.players) |->
                      IF i - 1 = winnerIndex
                      THEN [state.players[i] EXCEPT
                               !.score = @ + (IF isRemik THEN -20 ELSE -10)]
                      ELSE [state.players[i] EXCEPT
                               !.score = @ + (IF isRemik
                                              THEN Penalty(state.players[i].hand) * 2
                                              ELSE Penalty(state.players[i].hand))]]
        marked == [i \in 1..Len(scored) |->
                      IF scored[i].score >= pointsLimit
                      THEN [scored[i] EXCEPT !.eliminated = TRUE]
                      ELSE scored[i]]
        activePlayers == {i \in 1..Len(marked) : ~marked[i].eliminated}
    IN  [state EXCEPT
            !.players = marked,
            !.phase = IF Cardinality(activePlayers) <= 1 THEN GAME_OVER ELSE ROUND_OVER,
            !.roundWinner = winnerIndex]

\* the index the while loop of advanceTurn / nextRound stops at
RECURSIVE Srv_skipEliminated(_, _, _)
Srv_skipEliminated(state, index, safety) ==
    IF state.players[index + 1].eliminated /\ safety < Len(state.players)
    THEN Srv_skipEliminated(state, (index + 1) % Len(state.players), safety + 1)
    ELSE index

Srv_advanceTurn(state) ==
    [state EXCEPT
        !.currentPlayerIndex =
            Srv_skipEliminated(state, (state.currentPlayerIndex + 1) % Len(state.players), 0),
        !.phase = DRAW,
        !.drawnFromDiscard = FALSE,
        !.drawnCard = NullCard]

Srv_reshuffleIfNeeded(state, rnd) ==
    IF Len(state.stock) > 0 \/ state.stockReshuffleCount >= 1 THEN state
    ELSE IF Len(state.discardPile) <= 1 THEN state
    ELSE LET topDiscard == state.discardPile[Len(state.discardPile)]
             rest == SubSeq(state.discardPile, 1, Len(state.discardPile) - 1)
         IN  [state EXCEPT !.stock = Srv_shuffleDeck(rest, rnd),
                           !.discardPile = <<topDiscard>>,
                           !.stockReshuffleCount = @ + 1]

handleDrawStock(state, rnd) ==
    IF state.phase # DRAW THEN Fail(state, "Cannot draw now")
    ELSE
    LET s1 == IF Len(state.stock) = 0 THEN Srv_reshuffleIfNeeded(state, rnd) ELSE state
    IN  IF Len(s1.stock) = 0 THEN Fail(s1, "No cards remaining")
        ELSE
        LET card == Head(s1.stock)
            cur == s1.currentPlayerIndex
        IN  Ok([s1 EXCEPT
                   !.stock = Tail(s1.stock),
                   !.players[cur + 1].hand = Append(@, card),
                   !.drawnCard = card,
                   !.drawnFromDiscard = FALSE,
                   !.phase = MELD,
                   !.lastAction = [type |-> "draw", source |-> "stock",
                                   playerIndex |-> cur, card |-> NullCard]])

handleDrawDiscard(state) ==
    IF state.phase # DRAW THEN Fail(state, "Cannot draw now")
    ELSE IF Len(state.discardPile) = 0 THEN Fail(state, "Discard pile is empty")
    ELSE
    LET card == state.discardPile[Len(state.discardPile)]
        cur == state.currentPlayerIndex
    IN  Ok([state EXCEPT
               !.discardPile = SubSeq(state.discardPile, 1, Len(state.discardPile) - 1),
               !.players[cur + 1].hand = Append(@, card),
               !.drawnCard = card,
               !.drawnFromDiscard = TRUE,
               !.phase = MELD,
               !.lastAction = [type |-> "draw", source |-> "discard",
                               playerIndex |-> cur, card |-> card]])

handlePlayMelds(state, meldCardIds) ==
    IF state.phase # MELD /\ state.phase # DISCARD THEN Fail(state, "Cannot meld now")
    ELSE
    LET cur == state.currentPlayerIndex
        player == state.players[cur + 1]
        melds == [g \in 1..Len(meldCardIds) |-> ResolveIds(player.hand, meldCardIds[g])]
        config == state.config
    IN  IF \E i \in 1..Len(melds) : Srv_classifyMeld(melds[i]) = "invalid"
        THEN Fail(state, "One or more melds are invalid")
        ELSE IF /\ ~player.hasOpened
                /\ config.requireOpening
                /\ ~Srv_isValidOpening(melds, IF config.openRequirement # 0
                                              THEN config.openRequirement ELSE 51).valid
        THEN Fail(state, Srv_isValidOpening(melds, IF config.openRequirement # 0
                                                   THEN config.openRequirement ELSE 51).reason)
        ELSE
        LET flat == Flat(meldCardIds)
            allCardIds == {flat[i] : i \in 1..Len(flat)}
            newMelds == [g \in 1..Len(melds) |-> [cards |-> melds[g], owner |-> cur]]
            played == [state EXCEPT
                          !.players[cur + 1].hand = WithoutIds(@, allCardIds),
                          !.tableMelds = @ \o newMelds,
                          !.players[cur + 1].hasOpened = TRUE]
        IN  IF Len(played.players[cur + 1].hand) = 0
            THEN LET isRemik == Len(melds) > 0
                 IN  Ok(Srv_endRound([played EXCEPT !.phase = ROUND_OVER], cur, isRemik))
            ELSE Ok(played)

handleExtendMeld(state, tableMeldIndex, cardIds, position) ==
    IF state.phase # MELD THEN Fail(state, "Cannot extend melds now")
    ELSE
    LET cur == state.currentPlayerIndex
        player == state.players[cur + 1]
    IN  IF ~player.hasOpened THEN Fail(state, "Must open first")
        ELSE IF tableMeldIndex < 0 \/ tableMeldIndex >= Len(state.tableMelds)
        THEN Fail(state, "Invalid meld index")
        ELSE
        LET tableMeld == state.tableMelds[tableMeldIndex + 1]
            cards == ResolveIds(player.hand, cardIds)
        IN  IF Len(cards) = 0 THEN Fail(state, "Cards not found in hand")
            ELSE IF ~Srv_canExtendMeld(tableMeld.cards, cards, position)
            THEN Fail(state, "Cards cannot extend this meld")
            ELSE
            LET extended == [state EXCEPT
                                !.players[cur + 1].hand =
                                    WithoutIds(@, {cardIds[i] : i \in 1..Len(cardIds)}),
                                !.tableMelds[tableMeldIndex + 1].cards =
                                    IF position = "start" THEN cards \o tableMeld.cards
                                    ELSE tableMeld.cards \o cards]
            IN  IF Len(extended.players[cur + 1].hand) = 0
                THEN Ok(Srv_endRound([extended EXCEPT !.phase = ROUND_OVER], cur, FALSE))
                ELSE Ok(extended)

handleDiscard(state, cardId) ==
    IF state.phase # MELD /\ state.phase # DISCARD THEN Fail(state, "Cannot discard now")
    ELSE
    LET cur == state.currentPlayerIndex
        player == state.players[cur + 1]
    IN  IF cardId \notin HandIds(player.hand) THEN Fail(state, "Card not in hand")
        ELSE IF state.drawnFromDiscard /\ state.drawnCard # NullCard
                /\ state.drawnCard.id = cardId
        THEN Fail(state, "Cannot discard the card you just drew from the discard pile")
        ELSE
        LET cardIndex == CHOOSE i \in 1..Len(player.hand) :
                            /\ player.hand[i].id = cardId
                            /\ \A j \in 1..(i - 1) : player.hand[j].id # cardId
            card == player.hand[cardIndex]
            thrown == [state EXCEPT
                          !.players[cur + 1].hand =
                              SubSeq(@, 1, cardIndex - 1) \o SubSeq(@, cardIndex + 1, Len(@)),
                          !.discardPile = Append(@, card),
                          !.lastAction = [type |-> "discard", source |-> "",
                                          playerIndex |-> cur, card |-> card]]
        IN  IF Len(thrown.players[cur + 1].hand) = 0
            THEN Ok(Srv_endRound([thrown EXCEPT !.phase = ROUND_OVER], cur, FALSE))
            ELSE Ok(Srv_advanceTurn(thrown))

handleSkipMeld(state) ==
    IF state.phase # MELD THEN Fail(state, "Not in meld phase")
    ELSE Ok([state EXCEPT !.phase = DISCARD])

handleJokerSwap(state, tableMeldIndex, jokerPositionInMeld, cardId) ==
    IF state.phase # MELD THEN Fail(state, "Cannot swap jokers now")
    ELSE
    LET cur == state.currentPlayerIndex
        player == state.players[cur + 1]
    IN  IF ~player.hasOpened THEN Fail(state, "Must open first")
        ELSE IF tableMeldIndex < 0 \/ tableMeldIndex >= Len(state.tableMelds)
        THEN Fail(state, "Invalid meld index")
        ELSE
        LET meld == state.tableMelds[tableMeldIndex + 1].cards
            hasSlot == jokerPositionInMeld >= 0 /\ jokerPositionInMeld < Len(meld)
            handCard == FindById(player.hand, cardId)
        IN  IF ~hasSlot \/ ~meld[jokerPositionInMeld + 1].isJoker
            THEN Fail(state, "No joker at that position")
            ELSE IF handCard = NullCard THEN Fail(state, "Card not in hand")
            ELSE IF handCard.isJoker THEN Fail(state, "Cannot swap a joker with a joker")
            ELSE IF Srv_classifyMeld([meld EXCEPT ![jokerPositionInMeld + 1] = handCard])
                        = "invalid"
            THEN Fail(state, "That card does not match what the joker represents")
            ELSE Ok([state EXCEPT
                        !.tableMelds[tableMeldIndex + 1].cards[jokerPositionInMeld + 1] = handCard,
                        !.players[cur + 1].hand =
                            Append(WithoutIds(@, {cardId}), meld[jokerPositionInMeld + 1])])

handleRepositionJoker(state, meldIndex, jokerCardIndex) ==
    IF state.phase # MELD THEN Fail(state, "Cannot reposition jokers now")
    ELSE
    LET cur == state.currentPlayerIndex
        player == state.players[cur + 1]
    IN  IF ~player.hasOpened THEN Fail(state, "Must open first")
        ELSE IF meldIndex < 0 \/ meldIndex >= Len(state.tableMelds)
        THEN Fail(state, "Invalid meld index")
        ELSE
        LET cards == state.tableMelds[meldIndex + 1].cards
            isAtStart == jokerCardIndex = 0
            isAtEnd == jokerCardIndex = Len(cards) - 1
        IN  IF ~isAtStart /\ ~isAtEnd
            THEN Fail(state, "Can only reposition jokers at the start or end of a meld")
            ELSE IF ~cards[jokerCardIndex + 1].isJoker
            THEN Fail(state, "No joker at that position")
            ELSE
            LET jokerCard == cards[jokerCardIndex + 1]
                newCards == IF isAtStart THEN Tail(cards) \o <<jokerCard>>
                            ELSE <<jokerCard>> \o SubSeq(cards, 1, Len(cards) - 1)
            IN  IF Srv_classifyMeld(newCards) = "invalid"
                THEN Fail(state, "Moving the joker would invalidate the meld")
                ELSE Ok([state EXCEPT !.tableMelds[meldIndex + 1].cards = newCards])

Srv_nextRound(state, rnd) ==
    IF state.phase # ROUND_OVER /\ state.phase # GAME_OVER THEN state
    ELSE Srv_startRound(
            [state EXCEPT
                !.roundNumber = @ + 1,
                !.startingPlayerIndex =
                    Srv_skipEliminated(state,
                        (state.startingPlayerIndex + 1) % Len(state.players), 0)],
            rnd)

\* the game_state message with every hand in it
broadcastAllHands(state, i) ==
    [type |-> "game_state",
     myIndex |-> i,
     roundNumber |-> state.roundNumber,
     currentPlayerIndex |-> state.currentPlayerIndex,
     phase |-> state.phase,
     players |-> [j \in 1..Len(state.players) |->
                     [handSize |-> Len(state.players[j].hand),
                      hand |-> state.players[j].hand,
                      hasOpened |-> state.players[j].hasOpened,
                      score |-> state.players[j].score,
                      eliminated |-> state.players[j].eliminated,
                      isMe |-> j - 1 = i]],
     stock |-> [count |-> Len(state.stock)],
     discardPile |-> [count |-> Len(state.discardPile),
                      topCard |-> IF Len(state.discardPile) > 0
                                  THEN state.discardPile[Len(state.discardPile)]
                                  ELSE NullCard],
     tableMelds |-> [m \in 1..Len(state.tableMelds) |->
                        [cards |-> state.tableMelds[m].cards,
                         owner |-> state.tableMelds[m].owner]],
     lastAction |-> state.lastAction,
     drawnFromDiscard |-> IF state.currentPlayerIndex = i THEN state.drawnFromDiscard
                          ELSE FALSE,
     config |-> state.config]

\* the game_state message broadcastGameState sends to the player at index i; name,
\* colour and icon of the players belong to the room and are left out
broadcastGameState(state, i) ==
    [type |-> "game_state",
     myIndex |-> i,
     roundNumber |-> state.roundNumber,
     currentPlayerIndex |-> state.currentPlayerIndex,
     phase |-> state.phase,
     players |-> [j \in 1..Len(state.players) |->
                     [handSize |-> Len(state.players[j].hand),
                      hand |-> IF j - 1 = i THEN state.players[j].hand ELSE <<>>,
                      hasOpened |-> state.players[j].hasOpened,
                      score |-> state.players[j].score,
                      eliminated |-> state.players[j].eliminated,
                      isMe |-> j - 1 = i]],
     stock |-> [count |-> Len(state.stock)],
     discardPile |-> [count |-> Len(state.discardPile),
                      topCard |-> IF Len(state.discardPile) > 0
                                  THEN state.discardPile[Len(state.discardPile)]
                                  ELSE NullCard],
     tableMelds |-> [m \in 1..Len(state.tableMelds) |->
                        [cards |-> state.tableMelds[m].cards,
                         owner |-> state.tableMelds[m].owner]],
     lastAction |-> state.lastAction,
     drawnFromDiscard |-> IF state.currentPlayerIndex = i THEN state.drawnFromDiscard
                          ELSE FALSE,
     config |-> state.config]

\* [...ids].sort((a, b) => a - b)
RECURSIVE SortIds(_)
SortIds(ids) ==
    IF ids = <<>> THEN <<>>
    ELSE LET rest == SortIds(Tail(ids))
             before == SelectSeq(rest, LAMBDA x : x < Head(ids))
             after == SelectSeq(rest, LAMBDA x : x >= Head(ids))
         IN  before \o <<Head(ids)>> \o after

\* idMap.get(id): the map keeps the last card set under an id, undefined
\* written NullCard
IdMapGet(hand, id) ==
    IF \E i \in 1..Len(hand) : hand[i].id = id
    THEN hand[CHOOSE i \in 1..Len(hand) :
                  /\ hand[i].id = id
                  /\ \A k \in (i + 1)..Len(hand) : hand[k].id # id]
    ELSE NullCard

RECURSIVE CardsOfIds(_, _)
CardsOfIds(hand, cardIds) ==
    IF cardIds = <<>> THEN <<>>
    ELSE LET card == IdMapGet(hand, Head(cardIds))
         IN  (IF IsCard(card) THEN <<card>> ELSE <<>>) \o CardsOfIds(hand, Tail(cardIds))

handleReorderHand(state, playerIndex, cardIds) ==
    LET player == state.players[playerIndex + 1]
        currentIds == SortIds([i \in 1..Len(player.hand) |-> player.hand[i].id])
        requestedIds == SortIds(cardIds)
    IN  IF Len(currentIds) # Len(requestedIds) THEN Fail(state, "Card count mismatch")
        ELSE IF currentIds # requestedIds THEN Fail(state, "Card mismatch - sync error")
        ELSE Ok([state EXCEPT !.players[playerIndex + 1].hand =
                                  CardsOfIds(player.hand, cardIds)])

\* handleAction without the turn check
handleActionAnyPlayer(state, playerIndex, result) ==
    IF playerIndex < 0 \/ playerIndex >= Len(state.players)
    THEN Fail(state, "Player not in game")
    ELSE result

\* handleAction for the player at playerIndex; `result` is what the handler
\* of the requested action returns when the player is the current player
handleAction(state, playerIndex, result) ==
    IF playerIndex < 0 \/ playerIndex >= Len(state.players)
    THEN Fail(state, "Player not in game")
    ELSE IF playerIndex # state.currentPlayerIndex THEN Fail(state, "Not your turn")
    ELSE result

\* handleAction for the action reorder_hand, which is passed on before the turn
\* check
handleActionReorder(state, playerIndex, cardIds) ==
    IF playerIndex < 0 \/ playerIndex >= Len(state.players)
    THEN Fail(state, "Player not in game")
    ELSE handleReorderHand(state, playerIndex, cardIds)

(***************************************************************************)
(* The callers of the engine: the configurations a game is created with    *)
(* and the arguments the entry points are called with.                     *)
(***************************************************************************)
\* The hand sizes lie below mergeConfig's clamp range (7..20) and the deck is
\* cut down, which keeps the round finite for the model checker; the points
\* limit is the lowest mergeConfig admits.
ModelConfig(first, other, req) ==
    [POINTS_LIMIT |-> 50, JOKER_COUNT |-> 1,
     HAND_SIZE_FIRST |-> first, HAND_SIZE_OTHER |-> other,
     OPEN_REQUIREMENT |-> 30, REQUIRE_OPENING |-> req]

\* The games of the model: two players dealt 4 and 2 cards, with and without the
\* opening requirement, and two or three players dealt 1 and 2 cards, where the
\* starting player goes out with the first discard.
ModelGames ==
    {[numPlayers |-> 2, config |-> ModelConfig(4, 2, req)] : req \in BOOLEAN}
    \cup {[numPlayers |-> n, config |-> ModelConfig(1, 2, TRUE)] : n \in {2, 3}}

CurrentHand(s) == s.players[s.currentPlayerIndex + 1].hand

\* An id group names distinct cards of the current hand in the order they sit in
\* the hand; position Len(hand) + 1 stands for an id that no card of the hand has
\* (NullCard.id).  Two groups of one call may share ids.
IdAt(hand, k) == IF k >= 1 /\ k <= Len(hand) THEN hand[k].id ELSE NullCard.id

IdGroupsOfLen(s, len) ==
    LET hand == CurrentHand(s)
        picks == {g \in [1..len -> 1..(Len(hand) + 1)] :
                     \A i \in 1..(len - 1) : g[i] < g[i + 1]}
    IN  {[i \in 1..len |-> IdAt(hand, g[i])] : g \in picks}

IdGroups(s, minLen, maxLen) == UNION {IdGroupsOfLen(s, len) : len \in minLen..maxLen}

\* playMelds is called with no group, one group or two groups.  A call whose first
\* group does not classify fails at that group whatever follows it, so two-group
\* calls are enumerated for the first groups that classify.  A one-group call may
\* also name MaxGroupLen cards of the hand followed by an id no card of the hand has.
PlayMeldsArgs(s) ==
    LET groups == IdGroups(s, 1, MaxGroupLen)
        valid == {g \in groups : classifyMeld(ResolveIds(CurrentHand(s), g)) # "invalid"}
        strays == {Append(g, NullCard.id) : g \in IdGroupsOfLen(s, MaxGroupLen)}
    IN  {<<>>} \cup {<<g>> : g \in groups \cup strays}
        \cup {<<g, h>> : g \in valid, h \in groups}

MeldIndexArgs(s) == (-1)..Len(s.tableMelds)
Positions == {"start", "end"}
CardIdArgs(s) == HandIds(CurrentHand(s)) \cup {NullCard.id}
\* discard is called with the first card of the hand, with the last one (the card
\* just drawn, when one was drawn) or with an id that no card of the hand has
DiscardArgs(s) == {IdAt(CurrentHand(s), 1), IdAt(CurrentHand(s), Len(CurrentHand(s))),
                   NullCard.id}
JokerSlotArgs(s) == (-1)..(MaxGroupLen + 1)

(***************************************************************************)
(* The client engine as a state machine                                    *)
(***************************************************************************)
\* no card list has been handed to the classifier
NoCards == [cards |-> <<>>, result |-> "none"]

Init ==
    /\ \E game \in ModelGames, rnd \in RandomValues :
          st = startRound(createGame(game.numPlayers, game.config), rnd)
    /\ openedBefore = FALSE
    /\ turns = 0
    /\ pf = NoCards

\* hasOpened of the player whose turn it is, as it was when that turn began
TurnOpened(s, t) ==
    IF t.currentPlayerIndex # s.currentPlayerIndex
    THEN t.players[t.currentPlayerIndex + 1].hasOpened
    ELSE openedBefore

Step(t) ==
    /\ turns < MaxTurns
    /\ st' = t
    /\ openedBefore' = TurnOpened(st, t)
    /\ turns' = IF t.currentPlayerIndex # st.currentPlayerIndex THEN turns + 1 ELSE turns
    /\ UNCHANGED pf

DrawFromStock == \E rnd \in RandomValues : Step(drawFromStock(st, rnd).state)

DrawFromDiscard == Step(drawFromDiscard(st).state)

PlayMelds == \E meldCardIds \in PlayMeldsArgs(st) : Step(playMelds(st, meldCardIds).state)

ExtendMeld ==
    \E tableMeldIndex \in MeldIndexArgs(st), cardIds \in IdGroups(st, 1, MaxGroupLen - 1),
       position \in Positions :
        Step(addToTableMeld(st, tableMeldIndex, cardIds, position).state)

SwapJoker ==
    \E tableMeldIndex \in MeldIndexArgs(st), slot \in JokerSlotArgs(st),
       cardId \in CardIdArgs(st) :
        Step(swapJoker(st, tableMeldIndex, slot, cardId).state)

SkipMeld == Step(skipMeld(st))

Discard == \E cardId \in DiscardArgs(st) : Step(discard(st, cardId).state)

NextRound ==
    /\ st.roundNumber < MaxRounds
    /\ \E rnd \in RandomValues :
          /\ st' = nextRound(st, rnd)
          /\ openedBefore' = IF st'.roundNumber # st.roundNumber THEN FALSE ELSE openedBefore
          /\ UNCHANGED <<turns, pf>>

Next ==
    \/ DrawFromStock
    \/ DrawFromDiscard
    \/ PlayMelds
    \/ ExtendMeld
    \/ SwapJoker
    \/ SkipMeld
    \/ Discard
    \/ NextRound

Spec == Init /\ [][Next]_vars

(***************************************************************************)
(* The server as a state machine: the game actions a client sends go       *)
(* through handleAction, next_round comes from the host.                   *)
(***************************************************************************)
\* the player indices a game action arrives from; Len(players) is a player who is
\* not in the game
PlayerArgs(s) == 0..Len(s.players)

\* the arguments of a game action: `args` from the current player; a request
\* from anyone else is turned away before its arguments are read
ArgsOf(s, playerIndex, args, none) ==
    IF playerIndex = s.currentPlayerIndex THEN args ELSE {none}

Srv_PlayMeldsArgs(s) ==
    LET groups == IdGroups(s, 1, MaxGroupLen)
        valid == {g \in groups : Srv_classifyMeld(ResolveIds(CurrentHand(s), g)) # "invalid"}
    IN  {<<>>} \cup {<<g>> : g \in groups} \cup {<<g, h>> : g \in valid, h \in groups}

InitServer ==
    /\ \E game \in ModelGames, rnd \in RandomValues :
          st = startGame(game.numPlayers, game.config, rnd)
    /\ openedBefore = FALSE
    /\ turns = 0
    /\ pf = NoCards

SrvDrawStock ==
    \E playerIndex \in PlayerArgs(st), rnd \in RandomValues :
        Step(handleAction(st, playerIndex, handleDrawStock(st, rnd)).state)

SrvDrawDiscard ==
    \E playerIndex \in PlayerArgs(st) :
        Step(handleAction(st, playerIndex, handleDrawDiscard(st)).state)

SrvPlayMelds ==
    \E playerIndex \in PlayerArgs(st) :
        \E meldCardIds \in ArgsOf(st, playerIndex, Srv_PlayMeldsArgs(st), <<>>) :
            Step(handleAction(st, playerIndex, handlePlayMelds(st, meldCardIds)).state)

SrvExtendMeld ==
    \E playerIndex \in PlayerArgs(st) :
        \E tableMeldIndex \in ArgsOf(st, playerIndex, MeldIndexArgs(st), 0),
           cardIds \in ArgsOf(st, playerIndex, IdGroups(st, 1, MaxGroupLen - 1), <<>>),
           position \in Positions :
            Step(handleAction(st, playerIndex,
                              handleExtendMeld(st, tableMeldIndex, cardIds, position)).state)

SrvDiscard ==
    \E playerIndex \in PlayerArgs(st) :
        \E cardId \in ArgsOf(st, playerIndex, DiscardArgs(st), NullCard.id) :
            Step(handleAction(st, playerIndex, handleDiscard(st, cardId)).state)

SrvSkipMeld ==
    \E playerIndex \in PlayerArgs(st) :
        Step(handleAction(st, playerIndex, handleSkipMeld(st)).state)

SrvJokerSwap ==
    \E playerIndex \in PlayerArgs(st) :
        \E tableMeldIndex \in ArgsOf(st, playerIndex, MeldIndexArgs(st), 0),
           slot \in ArgsOf(st, playerIndex, JokerSlotArgs(st), 0),
           cardId \in ArgsOf(st, playerIndex, CardIdArgs(st), NullCard.id) :
            Step(handleAction(st, playerIndex,
                              handleJokerSwap(st, tableMeldIndex, slot, cardId)).state)

SrvRepositionJoker ==
    \E playerIndex \in PlayerArgs(st) :
        \E meldIndex \in ArgsOf(st, playerIndex, MeldIndexArgs(st), 0),
           jokerCardIndex \in ArgsOf(st, playerIndex, JokerSlotArgs(st), 0) :
            Step(handleAction(st, playerIndex,
                              handleRepositionJoker(st, meldIndex, jokerCardIndex)).state)

SrvNextRound ==
    /\ st.roundNumber < MaxRounds
    /\ \E rnd \in RandomValues :
          /\ st' = Srv_nextRound(st, rnd)
          /\ openedBefore' = IF st'.roundNumber # st.roundNumber THEN FALSE ELSE openedBefore
          /\ UNCHANGED <<turns, pf>>

NextServer ==
    \/ SrvDrawStock
    \/ SrvDrawDiscard
    \/ SrvPlayMelds
    \/ SrvExtendMeld
    \/ SrvDiscard
    \/ SrvSkipMeld
    \/ SrvJokerSwap
    \/ SrvRepositionJoker
    \/ SrvNextRound

SpecServer == InitServer /\ [][NextServer]_vars

(***************************************************************************)
(* The meld classifier on its own: card lists of up to MaxCards cards and  *)
(* their rearrangements.                                                   *)
(***************************************************************************)
ClassifyRanks == <<"A", "2", "3", "K">>
ClassifySuits == <<"S", "H">>

ClassifyCards ==
    {[id |-> (si - 1) * Len(ClassifyRanks) + ri, rank |-> ClassifyRanks[ri],
      suit |-> ClassifySuits[si], isJoker |-> FALSE] :
        ri \in 1..Len(ClassifyRanks), si \in 1..Len(ClassifySuits)}
    \cup {[id |-> Len(ClassifyRanks) * Len(ClassifySuits) + 1, rank |-> "JOKER",
           suit |-> "", isJoker |-> TRUE]}

CardLists == UNION {[1..n -> ClassifyCards] : n \in 0..MaxCards}

InitClassify ==
    /\ \E cards \in CardLists : pf = [cards |-> cards, result |-> "none"]
    /\ st = createGame(2, ModelConfig(4, 2, TRUE))
    /\ openedBefore = FALSE
    /\ turns = 0

\* the caller classifies the list as it stands
Classify ==
    /\ pf.result = "none"
    /\ pf' = [pf EXCEPT !.result = classifyMeld(pf.cards)]
    /\ UNCHANGED <<st, openedBefore, turns>>

\* the caller puts the same cards in another order
Rearrange ==
    /\ \E i, j \in 1..Len(pf.cards) : i < j /\ pf' = [pf EXCEPT !.cards = Swap(@, i, j)]
    /\ UNCHANGED <<st, openedBefore, turns>>

NextClassify == Classify \/ Rearrange

SpecClassify == InitClassify /\ [][NextClassify]_vars

(***************************************************************************)
(* Observations of a round state used by the properties                    *)
(***************************************************************************)
RoundIsOver(s) == s.phase \in {ROUND_OVER, GAME_OVER}

\* every card of the round, wherever it lies
AllCards(s) ==
    s.stock \o s.discardPile
    \o Flat([i \in 1..Len(s.players) |-> s.players[i].hand])
    \o Flat([i \in 1..Len(s.tableMelds) |-> s.tableMelds[i].cards])

InTableMeld(s, id) ==
    \E m \in 1..Len(s.tableMelds) : id \in HandIds(s.tableMelds[m].cards)

ActivePlayers(s) == {i \in 1..Len(s.players) : ~s.players[i].eliminated}

\* C1: every card of the round's deck lies in exactly one of stock, discard pile,
\* one hand or one table meld, so the sizes add up to the deck size.
C1_CardConservation ==
    LET deck == createDeck(st.config.JOKER_COUNT)
        all == AllCards(st)
    IN  /\ Len(all) = Len(deck)
        /\ HandIds(all) = HandIds(deck)

\* C2: whenever drawFromStock, drawFromDiscard, playMelds, addToTableMeld, swapJoker
\* or discard returns success = false, the state after the call equals the state
\* before the call.
C2_NoPartialMutation ==
    /\ \A rnd \in RandomValues :
          ~drawFromStock(st, rnd).success => drawFromStock(st, rnd).state = st
    /\ ~drawFromDiscard(st).success => drawFromDiscard(st).state = st
    /\ \A meldCardIds \in PlayMeldsArgs(st) :
          ~playMelds(st, meldCardIds).success => playMelds(st, meldCardIds).state = st
    /\ \A tableMeldIndex \in MeldIndexArgs(st), cardIds \in IdGroups(st, 1, MaxGroupLen - 1),
          position \in Positions :
          ~addToTableMeld(st, tableMeldIndex, cardIds, position).success
              => addToTableMeld(st, tableMeldIndex, cardIds, position).state = st
    /\ \A tableMeldIndex \in MeldIndexArgs(st), slot \in JokerSlotArgs(st),
          cardId \in CardIdArgs(st) :
          ~swapJoker(st, tableMeldIndex, slot, cardId).success
              => swapJoker(st, tableMeldIndex, slot, cardId).state = st
    /\ \A cardId \in CardIdArgs(st) :
          ~discard(st, cardId).success => discard(st, cardId).state = st

\* C3: an entry point called in a phase where it is not legal (a draw outside DRAW;
\* playMelds, addToTableMeld, swapJoker or skipMeld outside MELD; discard in DRAW,
\* ROUND_OVER or GAME_OVER; nextRound outside ROUND_OVER) leaves every field of
\* the state as it was.
C3_IdempotentPhaseFailure ==
    /\ st.phase # DRAW =>
          /\ \A rnd \in RandomValues : drawFromStock(st, rnd).state = st
          /\ drawFromDiscard(st).state = st
    /\ st.phase # MELD =>
          /\ \A meldCardIds \in PlayMeldsArgs(st) : playMelds(st, meldCardIds).state = st
          /\ \A tableMeldIndex \in MeldIndexArgs(st),
                cardIds \in IdGroups(st, 1, MaxGroupLen - 1), position \in Positions :
                addToTableMeld(st, tableMeldIndex, cardIds, position).state = st
          /\ \A tableMeldIndex \in MeldIndexArgs(st), slot \in JokerSlotArgs(st),
                cardId \in CardIdArgs(st) :
                swapJoker(st, tableMeldIndex, slot, cardId).state = st
          /\ skipMeld(st) = st
    /\ st.phase \in {DRAW, ROUND_OVER, GAME_OVER} =>
          \A cardId \in CardIdArgs(st) : discard(st, cardId).state = st
    /\ st.phase # ROUND_OVER =>
          \A rnd \in RandomValues : nextRound(st, rnd) = st

\* the turn passes within a round: the next state has another current player
TurnPasses ==
    /\ st'.roundNumber = st.roundNumber
    /\ st'.currentPlayerIndex # st.currentPlayerIndex

\* C4: when the current player drew from the discard pile this turn, the turn passes
\* to the next player only with the drawn card lying in a table meld, never with the
\* drawn card still in the drawer's hand.
C4_MustUseDrawnDiscard ==
    [][(st.drawnFromDiscard /\ TurnPasses) =>
          /\ InTableMeld(st', st.drawnCard.id)
          /\ st.drawnCard.id \notin HandIds(st'.players[st.currentPlayerIndex + 1].hand)]_vars

\* the current player empties their hand in this step
GoesOut ==
    /\ st'.roundNumber = st.roundNumber
    /\ ~RoundIsOver(st)
    /\ Len(CurrentHand(st)) > 0
    /\ Len(st'.players[st.currentPlayerIndex + 1].hand) = 0

ScoreChange(i) == st'.players[i].score - st.players[i].score

\* C5: when the current player w empties their hand, the round ends in the same step
\* with roundWinner = w, and it is scored as Remik (w scores -20, not -10) exactly
\* when w had not opened before the start of that turn.
C5_TerminationAndRemik ==
    [][GoesOut =>
          /\ RoundIsOver(st')
          /\ st'.roundWinner = st.currentPlayerIndex
          /\ ScoreChange(st.currentPlayerIndex + 1) = (IF openedBefore THEN -10 ELSE -20)]_vars

\* the point value the rules give a card left in a hand
PenaltyPoints(c) ==
    IF c.isJoker THEN 50
    ELSE IF c.rank = "A" THEN 11
    ELSE IF c.rank \in {"J", "Q", "K"} THEN 10
    ELSE rankIndex(c.rank) + 1

HandPoints(hand) == SumSeq([i \in 1..Len(hand) |-> PenaltyPoints(hand[i])])

\* this step ends the round with a winner
RoundWon ==
    /\ st'.roundNumber = st.roundNumber
    /\ ~RoundIsOver(st)
    /\ RoundIsOver(st')
    /\ st'.roundWinner # NoPlayer

\* C6: at a round end with winner w, w's score changes by -10, or by -20 in a Remik;
\* every other player's score grows by the point values of the cards left in their
\* hand (joker 50, ace 11, J/Q/K 10, 2..10 face value), doubled in a Remik.
C6_RoundEndScoring ==
    [][RoundWon =>
          \E remik \in BOOLEAN :
              \A i \in 1..Len(st.players) :
                  ScoreChange(i) =
                      IF i - 1 = st'.roundWinner
                      THEN (IF remik THEN -20 ELSE -10)
                      ELSE (IF remik THEN 2 ELSE 1) * HandPoints(st'.players[i].hand)]_vars

\* a Remik round has been scored in round 1: the winner stands at -20 and a loser
\* holding an ace stands at twice the points of their hand
C6_Witness ==
    /\ RoundIsOver(st)
    /\ st.roundNumber = 1
    /\ st.roundWinner # NoPlayer
    /\ st.players[st.roundWinner + 1].score = -20
    /\ \E i \in 1..Len(st.players) :
          /\ i - 1 # st.roundWinner
          /\ \E k \in 1..Len(st.players[i].hand) : st.players[i].hand[k].rank = "A"
          /\ st.players[i].score = 2 * HandPoints(st.players[i].hand)

\* this step scores a round (endRound has run)
RoundScored == ~RoundIsOver(st) /\ RoundIsOver(st')

PointsLimit(s) == IF s.config.POINTS_LIMIT # 0 THEN s.config.POINTS_LIMIT ELSE 501

PhaseOrder(discardPhases) ==
    /\ \A rnd \in RandomValues :
          drawFromStock(st, rnd).success =>
              st.phase = DRAW /\ drawFromStock(st, rnd).state.phase = MELD
    /\ drawFromDiscard(st).success =>
          st.phase = DRAW /\ drawFromDiscard(st).state.phase = MELD
    /\ \A meldCardIds \in PlayMeldsArgs(st) :
          playMelds(st, meldCardIds).success => st.phase = MELD
    /\ \A tableMeldIndex \in MeldIndexArgs(st), cardIds \in IdGroups(st, 1, MaxGroupLen - 1),
          position \in Positions :
          addToTableMeld(st, tableMeldIndex, cardIds, position).success => st.phase = MELD
    /\ \A tableMeldIndex \in MeldIndexArgs(st), slot \in JokerSlotArgs(st),
          cardId \in CardIdArgs(st) :
          swapJoker(st, tableMeldIndex, slot, cardId).success => st.phase = MELD
    /\ st.phase = MELD => skipMeld(st).phase = DISCARD
    /\ \A cardId \in CardIdArgs(st) :
          discard(st, cardId).success =>
              /\ st.phase \in discardPhases
              /\ \/ RoundIsOver(discard(st, cardId).state)
                 \/ /\ discard(st, cardId).state.phase = DRAW
                    /\ discard(st, cardId).state.currentPlayerIndex # st.currentPlayerIndex

C8_StockExhaustion ==
    /\ st.stockReshuffleCount \in {0, 1, 2}
    /\ (st.phase = DRAW /\ Len(st.stock) = 0) =>
          \A rnd \in RandomValues :
              LET after == handleDrawStock(st, rnd).state
              IN  /\ (st.stockReshuffleCount = 0 /\ Len(st.discardPile) > 1) =>
                        /\ after.stockReshuffleCount = 1
                        /\ after.discardPile = <<st.discardPile[Len(st.discardPile)]>>
                  /\ st.stockReshuffleCount >= 1 =>
                        /\ RoundIsOver(after)
                        /\ after.roundWinner = NoPlayer

\* C10: classifyMeld gives the same result for a card list and for every
\* permutation of that list: the result it gave for one order of the cards is the
\* result it gives for every order they are put in afterwards.
C10_ClassifierSymmetry ==
    pf.result # "none" => classifyMeld(pf.cards) = pf.result

\* a list classified as a sequence stands with its cards out of rank order
C10_Witness ==
    /\ pf.result = "sequence"
    /\ \E i \in 1..(Len(pf.cards) - 1) :
          /\ ~pf.cards[i].isJoker
          /\ ~pf.cards[i + 1].isJoker
          /\ rankIndex(pf.cards[i].rank) > rankIndex(pf.cards[i + 1].rank)

\* the jokers and the natural cards of a list
Jokers(cards) == SelectSeq(cards, LAMBDA c : c.isJoker)
Naturals(cards) == SelectSeq(cards, IsNatural)

(***************************************************************************)
(* Auto-split of a selection of cards into melds (engine/melds.js)         *)
(***************************************************************************)
\* a stable sort of cards by rank index, the ace high or low
RECURSIVE InsertCard(_, _, _)
InsertCard(sorted, c, high) ==
    LET Index(x) == IF high THEN aceHighIndex(x.rank) ELSE rankIndex(x.rank)
    IN  IF sorted = <<>> THEN <<c>>
        ELSE IF Index(Head(sorted)) <= Index(c)
             THEN <<Head(sorted)>> \o InsertCard(Tail(sorted), c, high)
             ELSE <<c>> \o sorted

RECURSIVE SortCards(_, _)
SortCards(cards, high) ==
    IF cards = <<>> THEN <<>>
    ELSE InsertCard(SortCards(SubSeq(cards, 1, Len(cards) - 1), high), cards[Len(cards)], high)

\* the loop of extractConsecutiveRunsLow and extractConsecutiveRunsHigh
RECURSIVE RunsFrom(_, _, _, _, _)
RunsFrom(sorted, i, currentRun, runs, high) ==
    LET Index(x) == IF high THEN aceHighIndex(x.rank) ELSE rankIndex(x.rank)
        closed == IF Len(currentRun) >= 3 THEN Append(runs, currentRun) ELSE runs
    IN  IF i > Len(sorted) THEN closed
        ELSE IF Index(sorted[i]) = Index(sorted[i - 1]) + 1
             THEN RunsFrom(sorted, i + 1, Append(currentRun, sorted[i]), runs, high)
             ELSE RunsFrom(sorted, i + 1, <<sorted[i]>>, closed, high)

extractConsecutiveRunsLow(sortedCards) ==
    IF Len(sortedCards) = 0 THEN <<>>
    ELSE RunsFrom(sortedCards, 2, <<sortedCards[1]>>, <<>>, FALSE)

extractConsecutiveRunsHigh(cards) ==
    LET sorted == SortCards(cards, TRUE)
        runs == IF Len(sorted) = 0 THEN <<>>
                ELSE RunsFrom(sorted, 2, <<sorted[1]>>, <<>>, TRUE)
    IN  SelectSeq(runs, LAMBDA run : \E i \in 1..Len(run) : run[i].rank = "A")

\* the elements of seq in the order of their first occurrence
RECURSIVE Distinct(_)
Distinct(seq) ==
    IF seq = <<>> THEN <<>>
    ELSE LET front == Distinct(SubSeq(seq, 1, Len(seq) - 1))
             last == seq[Len(seq)]
         IN  IF \E i \in 1..Len(front) : front[i] = last THEN front ELSE Append(front, last)

\* Object.keys of byRank: the ranks written as numbers first, in ascending order,
\* then the other ranks in the order they were first met
RankKeys(cards) ==
    LET ranks == Distinct(Map(cards, CardRank))
        IsNumber(r) == r \in {"2", "3", "4", "5", "6", "7", "8", "9", "10"}
        numbers == SortAsc(Map(SelectSeq(ranks, IsNumber), rankIndex))
    IN  [i \in 1..Len(numbers) |-> RANKS[numbers[i] + 1]]
        \o SelectSeq(ranks, LAMBDA r : ~IsNumber(r))

\* the cards of one rank, the first card of each suit kept
DedupedGroup(cards, rank) ==
    LET group == SelectSeq(cards, LAMBDA c : c.rank = rank)
    IN  SelectSeq([i \in 1..Len(group) |->
                      IF \E j \in 1..(i - 1) : group[j].suit = group[i].suit
                      THEN NullCard ELSE group[i]],
                  IsCard)

extractGroups(cards) ==
    SelectSeq([k \in 1..Len(RankKeys(cards)) |-> DedupedGroup(cards, RankKeys(cards)[k])],
              LAMBDA g : Len(g) >= 3 /\ Len(g) <= 4 /\ isValidGroup(g))

NoSplit == <<>>

\* melds and used of a split under way
RECURSIVE TakeRuns(_, _)
TakeRuns(split, runs) ==
    IF runs = <<>> THEN split
    ELSE LET run == Head(runs)
             free == ~(\E i \in 1..Len(run) : run[i].id \in split.used)
         IN  TakeRuns(IF free /\ isValidSequence(run)
                      THEN [melds |-> Append(split.melds, run),
                            used |-> split.used \cup HandIds(run)]
                      ELSE split,
                      Tail(runs))

RECURSIVE TakeGroups(_, _)
TakeGroups(split, groups) ==
    IF groups = <<>> THEN split
    ELSE TakeGroups([melds |-> Append(split.melds, Head(groups)),
                     used |-> split.used \cup HandIds(Head(groups))],
                    Tail(groups))

\* the body of the loop over the suits: ace-low runs, then ace-high runs of the
\* cards of the suit not used yet
SplitSuit(split, suitCards) ==
    LET low == TakeRuns(split, extractConsecutiveRunsLow(SortCards(suitCards, FALSE)))
        remainingSuit == SelectSeq(suitCards, LAMBDA c : c.id \notin low.used)
    IN  TakeRuns(low, extractConsecutiveRunsHigh(remainingSuit))

RECURSIVE SplitSuits(_, _, _)
SplitSuits(split, cards, suits) ==
    IF suits = <<>> THEN split
    ELSE SplitSuits(SplitSuit(split, SelectSeq(cards, LAMBDA c : c.suit = Head(suits))),
                    cards, Tail(suits))

\* SplitResult without the tests for unused cards
SplitResultWithLeftovers(split, cards) == split.melds

\* the end of both strategies: null unless every card is used and a meld was made
SplitResult(split, cards) ==
    LET unusedNonJoker == SelectSeq(Naturals(cards), LAMBDA c : c.id \notin split.used)
        unusedJokers == SelectSeq(Jokers(cards), LAMBDA c : c.id \notin split.used)
    IN  IF Len(unusedNonJoker) > 0 THEN NoSplit
        ELSE IF Len(unusedJokers) > 0 THEN NoSplit
        ELSE IF Len(split.melds) > 0 THEN split.melds ELSE NoSplit

trySplitSequencesFirst(cards) ==
    LET naturals == Naturals(cards)
        runs == SplitSuits([melds |-> <<>>, used |-> {}], naturals,
                           Distinct(Map(naturals, CardSuit)))
        remaining == SelectSeq(naturals, LAMBDA c : c.id \notin runs.used)
    IN  SplitResult(TakeGroups(runs, extractGroups(remaining)), cards)

trySplitGroupsFirst(cards) ==
    LET naturals == Naturals(cards)
        groups == TakeGroups([melds |-> <<>>, used |-> {}], extractGroups(naturals))
        remaining == SelectSeq(naturals, LAMBDA c : c.id \notin groups.used)
    IN  SplitResult(SplitSuits(groups, remaining, Distinct(Map(remaining, CardSuit))), cards)

autoSplitMelds(cards) ==
    LET result1 == trySplitSequencesFirst(cards)
    IN  IF result1 # NoSplit THEN result1 ELSE trySplitGroupsFirst(cards)

(***************************************************************************)
(* Properties of the meld classifier                                       *)
(***************************************************************************)
\* the cards can be laid out as a run of Len(cards) consecutive ranks of one suit
\* inside the ace-low window 0..12 or the ace-high window 1..13, every natural on
\* its own rank, the jokers on the ranks left over, no two jokers side by side
LaidOutAsRun(cards) ==
    LET naturals == Naturals(cards)
        n == Len(cards)
    IN  /\ Len(naturals) > 0
        /\ \A i \in 1..Len(naturals) : naturals[i].suit = naturals[1].suit
        /\ \E aceLow \in BOOLEAN, start \in 0..13 :
              LET lowest == IF aceLow THEN 0 ELSE 1
                  slots == start..(start + n - 1)
                  taken == {IF aceLow THEN rankIndex(naturals[i].rank)
                            ELSE aceHighIndex(naturals[i].rank) : i \in 1..Len(naturals)}
              IN  /\ start >= lowest
                  /\ start + n - 1 <= lowest + 12
                  /\ Cardinality(taken) = Len(naturals)
                  /\ taken \subseteq slots
                  /\ \A r \in slots : ~(r \notin taken /\ r + 1 \in slots /\ r + 1 \notin taken)

\* C11: every card list classified as a sequence can be laid out as a run of
\* consecutive ranks of one suit, ace low or ace high without wrap, in which each
\* joker stands for one missing rank and no two jokers are next to each other.
C11_NoAdjacentJokers ==
    pf.result = "sequence" => LaidOutAsRun(pf.cards)

JokerCard == [id |-> 109, rank |-> "JOKER", suit |-> "", isJoker |-> TRUE]
NaturalCard(id, rank, suit) == [id |-> id, rank |-> rank, suit |-> suit, isJoker |-> FALSE]

\* C12: a card list with more jokers than natural cards plus one is not a valid
\* sequence, and the list JOKER, JOKER, 5 of hearts, 6 of hearts classifies as invalid.
C12_JokerAdjacencyBound ==
    /\ (pf.result # "none" /\ Len(Jokers(pf.cards)) > Len(Naturals(pf.cards)) + 1)
          => ~isValidSequence(pf.cards)
    /\ classifyMeld(<<JokerCard, JokerCard, NaturalCard(1, "5", "H"),
                      NaturalCard(2, "6", "H")>>) = "invalid"

(***************************************************************************)
(* King, Ace and 2 of one suit with up to MaxJokers jokers, in every order *)
(***************************************************************************)
MaxJokers == 5

InitWrap ==
    /\ \E suit \in {ClassifySuits[i] : i \in 1..Len(ClassifySuits)} :
          pf = [cards |-> <<NaturalCard(1, "K", suit), NaturalCard(2, "A", suit),
                            NaturalCard(3, "2", suit)>>,
                result |-> "none"]
    /\ st = createGame(2, ModelConfig(4, 2, TRUE))
    /\ openedBefore = FALSE
    /\ turns = 0

\* the caller adds one more joker to the list before it is classified
AddJoker ==
    /\ pf.result = "none"
    /\ Len(Jokers(pf.cards)) < MaxJokers
    /\ pf' = [pf EXCEPT !.cards = Append(@, JokerCard)]
    /\ UNCHANGED <<st, openedBefore, turns>>

NextWrap == AddJoker \/ Classify \/ Rearrange

SpecWrap == InitWrap /\ [][NextWrap]_vars

IsKingAceTwo(cards) ==
    LET naturals == Naturals(cards)
    IN  /\ Len(naturals) = 3
        /\ {naturals[i].rank : i \in 1..3} = {"K", "A", "2"}
        /\ \A i \in 1..3 : naturals[i].suit = naturals[1].suit

\* C13: King, Ace and 2 of one suit together with any number of jokers, in any
\* order, classify as invalid.
C13_NoWrapAround ==
    (pf.result # "none" /\ IsKingAceTwo(pf.cards)) => pf.result = "invalid"

\* King, Ace, 2 and at least two jokers, the first card a joker, have been
\* classified as invalid
C13_Witness ==
    /\ IsKingAceTwo(pf.cards)
    /\ Len(Jokers(pf.cards)) >= 2
    /\ pf.cards[1].isJoker
    /\ pf.result = "invalid"

(***************************************************************************)
(* The classifier on lists over two ranks in three suits and a joker       *)
(***************************************************************************)
GroupRanks == <<"8", "9">>
GroupSuits == <<"S", "H", "D">>

GroupCards ==
    {NaturalCard((si - 1) * Len(GroupRanks) + ri, GroupRanks[ri], GroupSuits[si]) :
        ri \in 1..Len(GroupRanks), si \in 1..Len(GroupSuits)}
    \cup {JokerCard}

InitGroup ==
    /\ \E cards \in UNION {[1..n -> GroupCards] : n \in 0..MaxCards} :
          pf = [cards |-> cards, result |-> "none"]
    /\ st = createGame(2, ModelConfig(4, 2, TRUE))
    /\ openedBefore = FALSE
    /\ turns = 0

NextGroup == Classify \/ Rearrange

SpecGroup == InitGroup /\ [][NextGroup]_vars

GroupRule(cards) ==
    LET naturals == Naturals(cards)
    IN  /\ Len(cards) \in {3, 4}
        /\ Len(naturals) >= 1
        /\ \A i, j \in 1..Len(naturals) : naturals[i].rank = naturals[j].rank
        /\ \A i, j \in 1..Len(naturals) : i # j => naturals[i].suit # naturals[j].suit
        /\ Len(Jokers(cards)) <= Len(naturals)

\* C14: a card list is accepted as a group exactly when it has 3 or 4 cards, at
\* least one natural card, all naturals of one rank and of pairwise distinct suits,
\* and no more jokers than naturals.
C14_GroupRule ==
    pf.result # "none" =>
        /\ pf.result = "group" <=> GroupRule(pf.cards)
        /\ isValidGroup(pf.cards) <=> GroupRule(pf.cards)

\* three naturals of one rank in three suits and a joker stand classified as a group
C14_Witness ==
    /\ pf.result = "group"
    /\ Len(pf.cards) = 4
    /\ Len(Naturals(pf.cards)) = 3

(***************************************************************************)
(* The opening check and the meld points on lists of up to MaxMelds melds, *)
(* each meld three cards of OpeningHand in the order of the hand, the run   *)
(* Q, K, A or the five-card run 4, JOKER, 6, JOKER, 8 of spades            *)
(***************************************************************************)
MaxMelds == 2

OpeningHand ==
    <<NaturalCard(1, "A", "S"), NaturalCard(2, "2", "S"), NaturalCard(3, "3", "S"),
      NaturalCard(4, "10", "S"), NaturalCard(5, "J", "S"), NaturalCard(6, "Q", "S"),
      NaturalCard(7, "K", "S"), NaturalCard(8, "8", "D"), NaturalCard(9, "8", "C"),
      NaturalCard(10, "8", "H"), JokerCard>>

JokerGapMeld ==
    <<NaturalCard(11, "4", "S"), JokerCard, NaturalCard(12, "6", "S"), JokerCard,
      NaturalCard(13, "8", "S")>>

\* the ace-high run in the order of its ranks
QueenKingAce == <<OpeningHand[6], OpeningHand[7], OpeningHand[1]>>

OpeningMelds ==
    {<<OpeningHand[t[1]], OpeningHand[t[2]], OpeningHand[t[3]]>> :
        t \in {u \in (1..Len(OpeningHand)) \X (1..Len(OpeningHand)) \X (1..Len(OpeningHand)) :
                  u[1] < u[2] /\ u[2] < u[3]}}
    \cup {JokerGapMeld, QueenKingAce}

OpenRequirements == {30, 51}

NoResult == [valid |-> FALSE, reason |-> "none"]

InitOpening ==
    /\ \E requirement \in OpenRequirements :
          pf = [melds |-> <<>>, requirement |-> requirement, result |-> NoResult]
    /\ st = createGame(2, ModelConfig(4, 2, TRUE))
    /\ openedBefore = FALSE
    /\ turns = 0

\* the caller adds a meld to the opening attempt
AddMeld ==
    /\ pf.result = NoResult
    /\ Len(pf.melds) < MaxMelds
    /\ \E meld \in OpeningMelds : pf' = [pf EXCEPT !.melds = Append(@, meld)]
    /\ UNCHANGED <<st, openedBefore, turns>>

CheckOpening ==
    /\ pf.result = NoResult
    /\ pf' = [pf EXCEPT !.result = isValidOpening(pf.melds, pf.requirement)]
    /\ UNCHANGED <<st, openedBefore, turns>>

NextOpening == AddMeld \/ CheckOpening

SpecOpening == InitOpening /\ [][NextOpening]_vars

\* the naturals of the meld hold three consecutive ranks, ace low or ace high
HoldsThreeInARow(meld) ==
    LET naturals == Naturals(meld)
    IN  \E aceLow \in BOOLEAN, r \in 0..11 :
            {r, r + 1, r + 2} \subseteq
                {IF aceLow THEN rankIndex(naturals[i].rank)
                 ELSE aceHighIndex(naturals[i].rank) : i \in 1..Len(naturals)}

\* the answer of the opening check as C15 states it
StatedOpening(melds, requirement) ==
    IF \E i \in 1..Len(melds) : classifyMeld(melds[i]) \notin {"sequence", "group"}
    THEN [valid |-> FALSE, reason |-> "invalid meld"]
    ELSE IF ~(\E i \in 1..Len(melds) :
                 isValidSequence(melds[i]) /\ HoldsThreeInARow(melds[i]))
    THEN [valid |-> FALSE, reason |-> "no pure sub-run"]
    ELSE IF calculateMeldsPoints(melds) < requirement
    THEN [valid |-> FALSE, reason |-> "insufficient points"]
    ELSE [valid |-> TRUE, reason |-> ""]

TenJackQueenAndEights ==
    <<SubSeq(OpeningHand, 4, 6), SubSeq(OpeningHand, 8, 10)>>

OpeningExamples ==
    /\ isValidOpening(TenJackQueenAndEights, 51).valid
    /\ calculateMeldsPoints(TenJackQueenAndEights) = 54
    /\ ~isValidOpening(<<JokerGapMeld>>, 51).valid

RuleValue(c, aceLow) ==
    IF c.isJoker THEN 50
    ELSE IF c.rank = "A" THEN (IF aceLow THEN 1 ELSE 11)
    ELSE IF c.rank \in {"J", "Q", "K"} THEN 10
    ELSE rankIndex(c.rank) + 1

\* the naturals of the cards, of one suit and of distinct ranks, lie inside a run
\* of Len(cards) ranks of the ace-low window 0..12 or of the ace-high window 1..13
FitsWindow(cards, aceLow) ==
    LET naturals == Naturals(cards)
        lowest == IF aceLow THEN 0 ELSE 1
        taken == {IF aceLow THEN rankIndex(naturals[i].rank)
                  ELSE aceHighIndex(naturals[i].rank) : i \in 1..Len(naturals)}
    IN  /\ Len(naturals) > 0
        /\ Cardinality(taken) = Len(naturals)
        /\ \E start \in lowest..(lowest + 12) :
              /\ start + Len(cards) - 1 <= lowest + 12
              /\ taken \subseteq start..(start + Len(cards) - 1)

AceCountsLow(meld) ==
    isValidSequence(meld) /\ FitsWindow(meld, TRUE) /\ ~FitsWindow(meld, FALSE)

StatedPoints(melds) ==
    SumSeq([m \in 1..Len(melds) |->
               SumSeq([i \in 1..Len(melds[m]) |->
                          RuleValue(melds[m][i], AceCountsLow(melds[m]))])])

\* the client engine counts the points of valid melds as stated
ClientPointsAsStated ==
    (\A m \in 1..Len(pf.melds) : classifyMeld(pf.melds[m]) # "invalid")
        => calculateMeldsPoints(pf.melds) = StatedPoints(pf.melds)

\* the server counts the points of valid melds as stated
ServerPointsAsStated ==
    (\A m \in 1..Len(pf.melds) :
        classifyMeld(pf.melds[m]) # "invalid" /\ Srv_classifyMeld(pf.melds[m]) # "invalid")
        => Srv_calculateMeldsPoints(pf.melds) = StatedPoints(pf.melds)

\* C16: the points of melds are the sum of the card values (ace 11, 2..10 face
\* value, J/Q/K 10, joker 50) over all melds, an ace counting 1 exactly in a valid
\* sequence whose naturals fit the ace-low window and not the ace-high window, in
\* the client engine and in the server.
C16_LowAceScoring == ClientPointsAsStated /\ ServerPointsAsStated

(***************************************************************************)
(* Extending a table meld: a valid meld of three cards of ExtendHand and   *)
(* up to MaxNewCards further cards of that hand, added at either end       *)
(***************************************************************************)
MaxNewCards == 2

ExtendHand ==
    <<NaturalCard(1, "A", "S"), NaturalCard(2, "2", "S"), NaturalCard(3, "3", "S"),
      NaturalCard(4, "J", "S"), NaturalCard(5, "Q", "S"), NaturalCard(6, "K", "S"),
      NaturalCard(7, "5", "H"), NaturalCard(8, "6", "H"), NaturalCard(9, "7", "H"),
      NaturalCard(10, "8", "H"), JokerCard>>

TableMeldsOf(hand) ==
    {meld \in {<<hand[t[1]], hand[t[2]], hand[t[3]]>> :
                  t \in {u \in (1..Len(hand)) \X (1..Len(hand)) \X (1..Len(hand)) :
                            u[1] < u[2] /\ u[2] < u[3]}} :
        classifyMeld(meld) # "invalid"}

InitExtend ==
    /\ \E existingMeld \in TableMeldsOf(ExtendHand), position \in Positions :
          pf = [existingMeld |-> existingMeld, newCards |-> <<>>, position |-> position,
                checked |-> FALSE, result |-> FALSE]
    /\ st = createGame(2, ModelConfig(4, 2, TRUE))
    /\ openedBefore = FALSE
    /\ turns = 0

\* the player picks one more hand card to add to the meld
PickCard ==
    /\ ~pf.checked
    /\ Len(pf.newCards) < MaxNewCards
    /\ \E k \in 1..Len(ExtendHand) :
          /\ ExtendHand[k].id \notin HandIds(pf.existingMeld) \cup HandIds(pf.newCards)
          /\ pf' = [pf EXCEPT !.newCards = Append(@, ExtendHand[k])]
    /\ UNCHANGED <<st, openedBefore, turns>>

CanExtend ==
    /\ ~pf.checked
    /\ Len(pf.newCards) > 0
    /\ pf' = [pf EXCEPT !.checked = TRUE,
                        !.result = canExtendMeld(pf.existingMeld, pf.newCards, pf.position)]
    /\ UNCHANGED <<st, openedBefore, turns>>

NextExtend == PickCard \/ CanExtend

SpecExtend == InitExtend /\ [][NextExtend]_vars

\* under the ace reading aceLow the cards are a valid run and every new natural
\* lies beyond every natural of the meld on the side named by position
BeyondTheMeld(existingMeld, newCards, position, aceLow) ==
    LET Index(c) == IF aceLow THEN rankIndex(c.rank) ELSE aceHighIndex(c.rank)
        old == Naturals(existingMeld)
        new == Naturals(newCards)
    IN  /\ FitsWindow(existingMeld \o newCards, aceLow)
        /\ \A i \in 1..Len(new), j \in 1..Len(old) :
              IF position = "end" THEN Index(new[i]) > Index(old[j])
              ELSE Index(new[i]) < Index(old[j])

ExtendExamples ==
    /\ canExtendMeld(SubSeq(ExtendHand, 7, 9), <<ExtendHand[10]>>, "end")
    /\ ~canExtendMeld(SubSeq(ExtendHand, 7, 9), <<ExtendHand[10]>>, "start")

\* C17: canExtendMeld returns true only if the combined cards classify as valid and,
\* when they are a sequence and both the meld and the new cards hold naturals, under
\* an ace reading for which the combined meld is a valid run every new natural rank
\* lies strictly above every natural rank of the meld for position end, strictly
\* below for position start; 8 of hearts extends 5, 6, 7 of hearts at the end and
\* not at the start.
C17_ExtensionDirection ==
    /\ (pf.checked /\ pf.result) =>
          LET combined == pf.existingMeld \o pf.newCards
          IN  /\ classifyMeld(combined) # "invalid"
              /\ (/\ isValidSequence(combined)
                  /\ Len(Naturals(pf.existingMeld)) > 0
                  /\ Len(Naturals(pf.newCards)) > 0)
                    => \E aceLow \in BOOLEAN :
                          BeyondTheMeld(pf.existingMeld, pf.newCards, pf.position, aceLow)
    /\ ExtendExamples

(***************************************************************************)
(* Auto-split on selections of up to MaxSelect cards of SplitHand          *)
(***************************************************************************)
MaxSelect == 6

SplitHand ==
    <<NaturalCard(1, "5", "H"), NaturalCard(2, "6", "H"), NaturalCard(3, "7", "H"),
      NaturalCard(4, "8", "S"), NaturalCard(5, "8", "H"), NaturalCard(6, "8", "D"),
      NaturalCard(7, "Q", "H"), NaturalCard(8, "K", "H"), NaturalCard(9, "A", "H"),
      NaturalCard(10, "8", "S"), JokerCard>>

InitSplit ==
    /\ pf = [cards |-> <<>>, checked |-> FALSE, result |-> NoSplit]
    /\ st = createGame(2, ModelConfig(4, 2, TRUE))
    /\ openedBefore = FALSE
    /\ turns = 0

\* the player selects one more card, further along the hand than the last one
Select ==
    /\ ~pf.checked
    /\ Len(pf.cards) < MaxSelect
    /\ \A i \in 1..(Len(pf.cards) - 1) : pf.cards[i].id < pf.cards[i + 1].id
    /\ \E k \in 1..Len(SplitHand) :
          /\ \A i \in 1..Len(pf.cards) : pf.cards[i].id < SplitHand[k].id
          /\ pf' = [pf EXCEPT !.cards = Append(@, SplitHand[k])]
    /\ UNCHANGED <<st, openedBefore, turns>>

\* the selection is handed over in another order: turned round, or its first card last
Reorder ==
    /\ ~pf.checked
    /\ Len(pf.cards) > 1
    /\ \/ pf' = [pf EXCEPT !.cards = [i \in 1..Len(@) |-> @[Len(@) + 1 - i]]]
       \/ pf' = [pf EXCEPT !.cards = Append(Tail(@), Head(@))]
    /\ UNCHANGED <<st, openedBefore, turns>>

AutoSplit ==
    /\ ~pf.checked
    /\ pf' = [pf EXCEPT !.checked = TRUE, !.result = autoSplitMelds(pf.cards)]
    /\ UNCHANGED <<st, openedBefore, turns>>

NextSplit == Select \/ Reorder \/ AutoSplit

SpecSplit == InitSplit /\ [][NextSplit]_vars

FiveToSevenAndEights == SubSeq(SplitHand, 1, 6)

\* C18: when auto-split returns melds there is at least one, every meld is a
\* sequence or a group, and the melds together hold every selected card exactly
\* once; the sequences-first split is returned when it succeeds; 5, 6, 7 of hearts
\* and the 8 of spades, hearts and diamonds give two melds of all six cards; a
\* selection with a joker gives none.
C18_AutoSplitPartition ==
    /\ (pf.checked /\ pf.result # NoSplit) =>
          /\ Len(pf.result) >= 1
          /\ \A m \in 1..Len(pf.result) : classifyMeld(pf.result[m]) \in {"sequence", "group"}
          /\ Len(Flat(pf.result)) = Len(pf.cards)
          /\ \A i \in 1..Len(pf.cards) :
                Cardinality({k \in 1..Len(Flat(pf.result)) : Flat(pf.result)[k] = pf.cards[i]}) = 1
    /\ (pf.checked /\ trySplitSequencesFirst(pf.cards) # NoSplit) =>
          pf.result = trySplitSequencesFirst(pf.cards)
    /\ (pf.checked /\ Len(Jokers(pf.cards)) > 0) => pf.result = NoSplit
    /\ Len(autoSplitMelds(FiveToSevenAndEights)) = 2
    /\ Len(Flat(autoSplitMelds(FiveToSevenAndEights))) = 6

\* the six cards of the example have been split into a group and a run after the
\* sequences-first split had failed
C18_Witness ==
    /\ pf.checked
    /\ HandIds(pf.cards) = HandIds(FiveToSevenAndEights)
    /\ Len(pf.result) = 2
    /\ trySplitSequencesFirst(pf.cards) = NoSplit

(***************************************************************************)
(* Client engine against server                                            *)
(***************************************************************************)
\* C19: for every card list, in every order, the server's classifyMeld and the
\* client engine's classifyMeld return the same result.
C19_SameClassification ==
    Srv_classifyMeld(pf.cards) = classifyMeld(pf.cards)

\* the round state `state` of the client engine as the server holds it: the same
\* fields, with the settings under the names of the server's config
AsServerState(state) ==
    [state EXCEPT
        !.config = [pointsLimit |-> state.config.POINTS_LIMIT,
                    jokerCount |-> state.config.JOKER_COUNT,
                    handSizeFirst |-> state.config.HAND_SIZE_FIRST,
                    handSizeOther |-> state.config.HAND_SIZE_OTHER,
                    openRequirement |-> state.config.OPEN_REQUIREMENT,
                    requireOpening |-> state.config.REQUIRE_OPENING]]

\* what the two sides are compared on
RoundView(s) ==
    [phase |-> s.phase,
     currentPlayerIndex |-> s.currentPlayerIndex,
     hands |-> [i \in 1..Len(s.players) |-> s.players[i].hand],
     stock |-> s.stock,
     discardPile |-> s.discardPile,
     tableMelds |-> [m \in 1..Len(s.tableMelds) |-> s.tableMelds[m].cards],
     hasOpened |-> [i \in 1..Len(s.players) |-> s.players[i].hasOpened],
     stockReshuffleCount |-> s.stockReshuffleCount,
     scores |-> [i \in 1..Len(s.players) |-> s.players[i].score],
     eliminated |-> [i \in 1..Len(s.players) |-> s.players[i].eliminated]]

Agree(clientResult, serverResult) ==
    /\ clientResult.success = serverResult.success
    /\ RoundView(clientResult.state) = RoundView(serverResult.state)

DrawStockAgrees ==
    \A rnd \in RandomValues :
        Agree(drawFromStock(st, rnd), handleDrawStock(AsServerState(st), rnd))

DrawDiscardAgrees == Agree(drawFromDiscard(st), handleDrawDiscard(AsServerState(st)))

PlayMeldsAgrees ==
    \A meldCardIds \in PlayMeldsArgs(st) :
        Agree(playMelds(st, meldCardIds), handlePlayMelds(AsServerState(st), meldCardIds))

ExtendMeldAgrees ==
    \A tableMeldIndex \in MeldIndexArgs(st), cardIds \in IdGroups(st, 1, MaxGroupLen - 1),
       position \in Positions :
        Agree(addToTableMeld(st, tableMeldIndex, cardIds, position),
              handleExtendMeld(AsServerState(st), tableMeldIndex, cardIds, position))

JokerSwapAgrees ==
    \A tableMeldIndex \in MeldIndexArgs(st), slot \in JokerSlotArgs(st),
       cardId \in CardIdArgs(st) :
        Agree(swapJoker(st, tableMeldIndex, slot, cardId),
              handleJokerSwap(AsServerState(st), tableMeldIndex, slot, cardId))

SkipMeldAgrees == RoundView(skipMeld(st)) = RoundView(handleSkipMeld(AsServerState(st)).state)

DiscardAgrees ==
    \A cardId \in DiscardArgs(st) :
        Agree(discard(st, cardId), handleDiscard(AsServerState(st), cardId))

NextRoundAgrees ==
    \A rnd \in RandomValues :
        RoundView(nextRound(st, rnd)) = RoundView(Srv_nextRound(AsServerState(st), rnd))

\* C20: from equal round states, for every action the server handler and the
\* client engine function agree on success or failure, and afterwards phase,
\* current player, hands, stock, discard pile, table melds, hasOpened flags,
\* reshuffle counter, scores and eliminated flags are equal.
C20_SameRoundMachine ==
    /\ DrawStockAgrees
    /\ DrawDiscardAgrees
    /\ PlayMeldsAgrees
    /\ ExtendMeldAgrees
    /\ JokerSwapAgrees
    /\ SkipMeldAgrees
    /\ DiscardAgrees
    /\ NextRoundAgrees

(***************************************************************************)
(* Properties of the round state machine: what the entry points reject     *)
(***************************************************************************)
Rejected(result) == ~result.success /\ result.reason # ""

NotAllInHand(s, ids) == \E i \in 1..Len(ids) : ids[i] \notin HandIds(CurrentHand(s))

\* C21: playMelds, extendMeld, swapJoker and discard return success = false with
\* a reason whenever a referenced card id is not in the hand of the player whose
\* turn it is; no such id is dropped so that the remaining ids are played.
C21_OwnershipViolationsRejected ==
    /\ \A meldCardIds \in PlayMeldsArgs(st) :
          NotAllInHand(st, Flat(meldCardIds)) => Rejected(playMelds(st, meldCardIds))
    /\ \A tableMeldIndex \in MeldIndexArgs(st), cardIds \in IdGroups(st, 1, MaxGroupLen - 1),
          position \in Positions :
          NotAllInHand(st, cardIds) =>
              Rejected(addToTableMeld(st, tableMeldIndex, cardIds, position))
    /\ \A tableMeldIndex \in MeldIndexArgs(st), slot \in JokerSlotArgs(st),
          cardId \in CardIdArgs(st) :
          NotAllInHand(st, <<cardId>>) => Rejected(swapJoker(st, tableMeldIndex, slot, cardId))
    /\ \A cardId \in DiscardArgs(st) :
          NotAllInHand(st, <<cardId>>) => Rejected(discard(st, cardId))

\* C22: discard(cardId) fails with a reason and leaves the state unchanged when
\* cardId is the card the current player drew from the discard pile in this turn.
C22_DrawnDiscardCardKept ==
    \A cardId \in DiscardArgs(st) :
        (st.drawnFromDiscard /\ st.drawnCard # NullCard /\ cardId = st.drawnCard.id) =>
            /\ Rejected(discard(st, cardId))
            /\ discard(st, cardId).state = st

(***************************************************************************)
(* Properties of the round state machine: what the entry points do         *)
(***************************************************************************)
\* how often each id occurs in a card list
IdBag(cards) ==
    [id \in HandIds(cards) |-> Cardinality({i \in 1..Len(cards) : cards[i].id = id})]

DrawWithEmptyStock(s) ==
    /\ s.phase = DRAW
    /\ Len(s.stock) = 0
    /\ Len(s.discardPile) >= 2
    /\ s.stockReshuffleCount = 0

\* C23: when a stock draw is attempted with an empty stock, at least 2 cards in
\* the discard pile and no earlier reshuffle in this round, then after the call
\* the discard pile is exactly the previous top discard card, the reshuffle
\* counter has grown by one, the player has received one card, and the stock
\* together with the drawn card is a permutation of the previous discard pile
\* without its top card.
C23_ReshuffleStep ==
    \A rnd \in RandomValues :
        DrawWithEmptyStock(st) =>
            LET after == drawFromStock(st, rnd).state
                pile == st.discardPile
                rest == SubSeq(pile, 1, Len(pile) - 1)
                hand == after.players[st.currentPlayerIndex + 1].hand
            IN  /\ drawFromStock(st, rnd).success
                /\ after.discardPile = <<pile[Len(pile)]>>
                /\ after.stockReshuffleCount = st.stockReshuffleCount + 1
                /\ hand = Append(CurrentHand(st), after.drawnCard)
                /\ IdBag(Append(after.stock, after.drawnCard)) = IdBag(rest)

\* a draw has just gone through the reshuffle: the pile is down to its top card
C23_Witness ==
    /\ st.phase = MELD
    /\ st.lastAction.type = "draw"
    /\ st.lastAction.source = "stock"
    /\ st.stockReshuffleCount = 1
    /\ Len(st.discardPile) = 1
    /\ Len(st.stock) = 0

\* the state a round begins in
FreshRound(s) ==
    /\ s.phase = DISCARD
    /\ s.currentPlayerIndex = s.startingPlayerIndex
    /\ s.discardPile = <<>>
    /\ s.tableMelds = <<>>
    /\ \A i \in 1..Len(s.players) : ~s.players[i].hasOpened
    /\ s.stockReshuffleCount = 0
    /\ ~s.drawnFromDiscard
    /\ s.drawnCard = NullCard

RoundCreated == st'.roundNumber # st.roundNumber

\* C24: immediately after a round is created (the first round and every next
\* round) the phase is DISCARD, currentPlayerIndex equals startingPlayerIndex,
\* discard pile and table are empty, every hasOpened is false, the reshuffle
\* counter is 0 and no drawn-from-discard flag or drawn card is set; every later
\* turn of the round starts in DRAW.
C24_RoundStart ==
    /\ FreshRound(st)
    /\ [][/\ RoundCreated => FreshRound(st')
          /\ TurnPasses => st'.phase = DRAW]_vars

\* a second round has been created after a round that was scored
C24_Witness ==
    /\ st.roundNumber = 2
    /\ FreshRound(st)
    /\ \E i \in 1..Len(st.players) : st.players[i].score # 0

SameRound == st'.roundNumber = st.roundNumber

\* the table melds of s are still there in t, with their owners and no fewer cards
MeldsKept(s, t) ==
    /\ Len(t.tableMelds) >= Len(s.tableMelds)
    /\ \A m \in 1..Len(s.tableMelds) :
          /\ t.tableMelds[m].owner = s.tableMelds[m].owner
          /\ Len(t.tableMelds[m].cards) >= Len(s.tableMelds[m].cards)

ExtendKeepsCards(s) ==
    \A tableMeldIndex \in MeldIndexArgs(s), cardIds \in IdGroups(s, 1, MaxGroupLen - 1),
       position \in Positions :
        LET result == addToTableMeld(s, tableMeldIndex, cardIds, position)
            existing == s.tableMelds[tableMeldIndex + 1].cards
            cards == ResolveIds(CurrentHand(s), cardIds)
        IN  result.success =>
                /\ Len(cards) > 0
                /\ result.state.tableMelds[tableMeldIndex + 1].cards =
                      (IF position = "start" THEN cards \o existing ELSE existing \o cards)
                /\ \A m \in 1..Len(s.tableMelds) :
                      m # tableMeldIndex + 1 =>
                          result.state.tableMelds[m] = s.tableMelds[m]

SwapKeepsCount(s) ==
    \A tableMeldIndex \in MeldIndexArgs(s), slot \in JokerSlotArgs(s),
       cardId \in CardIdArgs(s) :
        LET result == swapJoker(s, tableMeldIndex, slot, cardId)
            before == s.tableMelds[tableMeldIndex + 1].cards
            after == result.state.tableMelds[tableMeldIndex + 1].cards
        IN  result.success =>
                /\ Len(after) = Len(before)
                /\ Cardinality({k \in 1..Len(before) : after[k] # before[k]}) = 1
                /\ before[slot + 1].isJoker
                /\ ~after[slot + 1].isJoker
                /\ after[slot + 1].id = cardId

\* C25: within a round no table meld is removed, no meld's owner changes and no
\* meld's card count decreases; extendMeld adds the new cards at the chosen end
\* and keeps the existing cards; swapJoker replaces exactly one joker by one
\* natural card and leaves the card count unchanged.
C25_MeldsOnlyGrow ==
    /\ [](ExtendKeepsCards(st) /\ SwapKeepsCount(st))
    /\ [][SameRound => MeldsKept(st, st')]_vars

\* a meld on the table has been extended beyond the cards it was played with
C25_Witness ==
    /\ st.lastAction.type = "extend"
    /\ \E m \in 1..Len(st.tableMelds) : Len(st.tableMelds[m].cards) > MaxGroupLen

(***************************************************************************)
(* What the server tells a player                                          *)
(***************************************************************************)
\* the states that differ from s in one card of the hand of a player other than
\* i, or in the order of the stock
HiddenVariants(s, i) ==
    LET deck == Srv_createDeck(s.config.jokerCount)
        others == {j \in 1..Len(s.players) : j - 1 # i}
    IN  UNION {{[s EXCEPT !.players[j].hand[k] = deck[c]] :
                   k \in 1..Len(s.players[j].hand), c \in 1..Len(deck)} : j \in others}
        \cup {[s EXCEPT !.stock = Swap(@, a, b)] : a \in 1..Len(s.stock), b \in 1..Len(s.stock)}

PlayerIndices(s) == 0..(Len(s.players) - 1)

\* C26: the game_state message sent to player i holds the cards of player i's own
\* hand only; for every other player it carries an empty hand and the hand size,
\* so two game states that differ only in the contents of other players' hands
\* or in the order of the stock give the same message for player i.
C26_SanitizedSnapshots ==
    \A i \in PlayerIndices(st) :
        LET msg == broadcastGameState(st, i)
        IN  /\ msg.players[i + 1].hand = st.players[i + 1].hand
            /\ \A j \in 1..Len(st.players) :
                  /\ msg.players[j].handSize = Len(st.players[j].hand)
                  /\ j - 1 # i => msg.players[j].hand = <<>>
            /\ \A other \in HiddenVariants(st, i) : broadcastGameState(other, i) = msg

\* a player has drawn from the stock and a message goes to another player, who
\* holds cards of their own
C26_Witness ==
    /\ st.lastAction.type = "draw"
    /\ st.lastAction.source = "stock"
    /\ Len(CurrentHand(st)) >= 2
    /\ \E j \in 1..Len(st.players) :
          j - 1 # st.currentPlayerIndex /\ Len(st.players[j].hand) >= 2

(***************************************************************************)
(* Scoring, table melds and turn order over the rounds                     *)
(***************************************************************************)
RoundEnds == SameRound /\ ~RoundIsOver(st) /\ RoundIsOver(st')

\* the score changes of this step are one application of the round-end rule
ScoredOnce ==
    LET w == st'.roundWinner
        remik == w # NoPlayer /\ ScoreChange(w + 1) = -20
    IN  \A i \in 1..Len(st.players) :
            IF w = NoPlayer THEN ScoreChange(i) = HandPoints(st'.players[i].hand)
            ELSE IF i - 1 = w THEN ScoreChange(i) \in {-10, -20}
            ELSE ScoreChange(i) = (IF remik THEN 2 ELSE 1) * HandPoints(st'.players[i].hand)

\* C27: between the start of a round and the start of the next, every player's
\* score changes by exactly one application of the round-end scoring rule; when
\* the round ends because the stock is exhausted for the second time, each
\* player's score rises by exactly the point sum of their hand.
C27_ScoredOnce ==
    [][SameRound =>
          IF RoundEnds THEN ScoredOnce
          ELSE \A i \in 1..Len(st.players) : ScoreChange(i) = 0]_vars

\* every table meld is a sequence or a group for the server's classifier
ServerTableMeldsValid ==
    \A m \in 1..Len(st.tableMelds) :
        /\ Len(st.tableMelds[m].cards) >= 3
        /\ Srv_classifyMeld(st.tableMelds[m].cards) \in {"sequence", "group"}

C29_OpeningGate ==
    LET cur == st.currentPlayerIndex + 1
        hand == CurrentHand(st)
    IN  /\ (st.config.REQUIRE_OPENING /\ ~st.players[cur].hasOpened) =>
              /\ \A meldCardIds \in PlayMeldsArgs(st) :
                    LET melds == [g \in 1..Len(meldCardIds) |-> ResolveIds(hand, meldCardIds[g])]
                        result == playMelds(st, meldCardIds)
                    IN  result.success =>
                            /\ isValidOpening(melds, st.config.OPEN_REQUIREMENT).valid
                            /\ result.state.players[cur].hasOpened
              /\ \A tableMeldIndex \in MeldIndexArgs(st),
                    cardIds \in IdGroups(st, 1, MaxGroupLen - 1), position \in Positions :
                    ~addToTableMeld(st, tableMeldIndex, cardIds, position).success
              /\ \A tableMeldIndex \in MeldIndexArgs(st), slot \in JokerSlotArgs(st),
                    cardId \in CardIdArgs(st) :
                    ~swapJoker(st, tableMeldIndex, slot, cardId).success
        /\ \A m \in 1..Len(st.tableMelds) : st.players[st.tableMelds[m].owner + 1].hasOpened

\* with the requirement enforced a player has just opened
C29_Witness ==
    /\ st.config.REQUIRE_OPENING
    /\ st.lastAction.type = "meld"
    /\ Len(st.tableMelds) >= 1
    /\ st.phase = MELD

(***************************************************************************)
(* Rounds of three players of whom one may be eliminated, dealt 3 and 2    *)
(* cards, so that a discard passes the turn on                             *)
(***************************************************************************)
\* the scores a finished round has left: nobody or one player at or over the limit
EndedScores ==
    {sc \in [1..3 -> {0, 60}] : Cardinality({i \in 1..3 : sc[i] >= 50}) <= 1}

\* the state at the end of a round of three players
EndedRounds ==
    {[createGame(3, ModelConfig(3, 2, TRUE)) EXCEPT
         !.phase = ROUND_OVER,
         !.startingPlayerIndex = sp,
         !.players = [i \in 1..3 |->
                         [hand |-> <<>>, hasOpened |-> FALSE, score |-> sc[i],
                          eliminated |-> sc[i] >= 50]]] :
        sp \in 0..2, sc \in EndedScores}

InitTurn ==
    /\ \E ended \in EndedRounds, rnd \in RandomValues : st = nextRound(ended, rnd)
    /\ openedBefore = FALSE
    /\ turns = 0
    /\ pf = NoCards

SpecTurn == InitTurn /\ [][Next]_vars

\* the first index after `index` in cyclic order whose player is not eliminated
FirstActiveAfter(s, index) ==
    LET n == Len(s.players)
        k == CHOOSE k \in 1..n :
                 /\ ~s.players[((index + k) % n) + 1].eliminated
                 /\ \A l \in 1..(k - 1) : s.players[((index + l) % n) + 1].eliminated
    IN  (index + k) % n

\* C30: after a successful discard that does not end the round, currentPlayerIndex
\* is the first index after the discarder in cyclic order whose player is not
\* eliminated; in every reachable state whose phase is DRAW, MELD or DISCARD the
\* current player is not eliminated.
C30_TurnSkipsEliminated ==
    /\ \A cardId \in DiscardArgs(st) :
          LET result == discard(st, cardId)
          IN  (result.success /\ ~RoundIsOver(result.state)) =>
                  result.state.currentPlayerIndex = FirstActiveAfter(st, st.currentPlayerIndex)
    /\ st.phase \in {DRAW, MELD, DISCARD} => ~st.players[st.currentPlayerIndex + 1].eliminated

\* a discard has passed the turn over an eliminated player
C30_Witness ==
    /\ st.phase = DRAW
    /\ st.lastAction.type = "discard"
    /\ st.players[((st.lastAction.playerIndex + 1) % Len(st.players)) + 1].eliminated
    /\ st.currentPlayerIndex = (st.lastAction.playerIndex + 2) % Len(st.players)

(***************************************************************************)
(* Rounds following one another                                            *)
(***************************************************************************)
\* C31: nextRound from ROUND_OVER increases the round number by one, sets
\* startingPlayerIndex to the first non-eliminated player cyclically after the
\* previous starting player, redeals from a fresh full deck, and leaves every
\* player's score and eliminated flag unchanged.
C31_NextRound ==
    st.phase = ROUND_OVER =>
        \A rnd \in RandomValues :
            LET t == nextRound(st, rnd)
            IN  /\ t.roundNumber = st.roundNumber + 1
                /\ t.startingPlayerIndex = FirstActiveAfter(st, st.startingPlayerIndex)
                /\ IdBag(AllCards(t)) = IdBag(createDeck(st.config.JOKER_COUNT))
                /\ t.tableMelds = <<>>
                /\ t.discardPile = <<>>
                /\ \A i \in 1..Len(st.players) :
                      /\ t.players[i].score = st.players[i].score
                      /\ t.players[i].eliminated = st.players[i].eliminated

\* a next round has begun with the player after an eliminated one
C31_Witness ==
    /\ st.roundNumber >= 2
    /\ st.lastAction = NoAction
    /\ st.phase = DISCARD
    /\ \E i \in 1..Len(st.players) :
          /\ st.players[i].eliminated
          /\ st.startingPlayerIndex = i % Len(st.players)

\* the round state `state` of the server as the client engine holds it
AsClientState(state) ==
    [state EXCEPT
        !.config = [POINTS_LIMIT |-> state.config.pointsLimit,
                    JOKER_COUNT |-> state.config.jokerCount,
                    HAND_SIZE_FIRST |-> state.config.handSizeFirst,
                    HAND_SIZE_OTHER |-> state.config.handSizeOther,
                    OPEN_REQUIREMENT |-> state.config.openRequirement,
                    REQUIRE_OPENING |-> state.config.requireOpening]]

\* t has the phase, round number, hands, piles, table melds and scores of s
NothingMoved(s, t) == RoundView(t) = RoundView(s) /\ t.roundNumber = s.roundNumber

\* no entry point of the client engine moves anything in state s
ClientStandsStill(s) ==
    /\ \A rnd \in RandomValues : NothingMoved(s, drawFromStock(s, rnd).state)
    /\ NothingMoved(s, drawFromDiscard(s).state)
    /\ \A meldCardIds \in PlayMeldsArgs(s) : NothingMoved(s, playMelds(s, meldCardIds).state)
    /\ \A tableMeldIndex \in MeldIndexArgs(s), cardIds \in IdGroups(s, 1, MaxGroupLen - 1),
          position \in Positions :
          NothingMoved(s, addToTableMeld(s, tableMeldIndex, cardIds, position).state)
    /\ \A tableMeldIndex \in MeldIndexArgs(s), slot \in JokerSlotArgs(s),
          cardId \in CardIdArgs(s) :
          NothingMoved(s, swapJoker(s, tableMeldIndex, slot, cardId).state)
    /\ NothingMoved(s, skipMeld(s))
    /\ \A cardId \in DiscardArgs(s) : NothingMoved(s, discard(s, cardId).state)
    /\ \A rnd \in RandomValues : NothingMoved(s, nextRound(s, rnd))

\* no game action and no next_round moves anything in state s of the server
ServerStandsStill(s) ==
    /\ \A rnd \in RandomValues : NothingMoved(s, handleDrawStock(s, rnd).state)
    /\ NothingMoved(s, handleDrawDiscard(s).state)
    /\ \A meldCardIds \in Srv_PlayMeldsArgs(s) :
          NothingMoved(s, handlePlayMelds(s, meldCardIds).state)
    /\ \A tableMeldIndex \in MeldIndexArgs(s), cardIds \in IdGroups(s, 1, MaxGroupLen - 1),
          position \in Positions :
          NothingMoved(s, handleExtendMeld(s, tableMeldIndex, cardIds, position).state)
    /\ \A tableMeldIndex \in MeldIndexArgs(s), slot \in JokerSlotArgs(s),
          cardId \in CardIdArgs(s) :
          NothingMoved(s, handleJokerSwap(s, tableMeldIndex, slot, cardId).state)
    /\ NothingMoved(s, handleSkipMeld(s).state)
    /\ \A cardId \in DiscardArgs(s) : NothingMoved(s, handleDiscard(s, cardId).state)
    /\ \A rnd \in RandomValues : NothingMoved(s, Srv_nextRound(s, rnd))

\* C32: once the phase is GAME_OVER, no entry point (draws, playMelds, extendMeld,
\* swapJoker, skipMeld, discard, next round) changes the phase, the round number,
\* any hand, pile, table meld or score, in the client engine and in the server.
C32_GameOverTerminal ==
    st.phase = GAME_OVER => ClientStandsStill(AsClientState(st)) /\ ServerStandsStill(st)

\* the client engine's half of C32 on the states of the client engine
ClientGameOverTerminal == st.phase = GAME_OVER => ClientStandsStill(st)

(***************************************************************************)
(* Frame and effect of the entry points                                    *)
(***************************************************************************)
\* the reasons C33 lists for a joker swap to fail
SwapMustFail(s, tableMeldIndex, slot, cardId) ==
    LET player == s.players[s.currentPlayerIndex + 1]
        inRange == tableMeldIndex >= 0 /\ tableMeldIndex < Len(s.tableMelds)
        meld == s.tableMelds[tableMeldIndex + 1].cards
        hasJoker == slot >= 0 /\ slot < Len(meld) /\ meld[slot + 1].isJoker
        handCard == FindById(player.hand, cardId)
    IN  \/ ~player.hasOpened
        \/ ~inRange
        \/ ~hasJoker
        \/ handCard = NullCard
        \/ handCard.isJoker
        \/ classifyMeld([meld EXCEPT ![slot + 1] = handCard]) = "invalid"

\* C33: a successful swapJoker puts the given natural hand card into the joker's
\* slot of the table meld and the joker into the swapper's hand, leaves the
\* meld's card count, the swapper's hand size, the phase (MELD) and every other
\* meld unchanged, and leaves the meld classified valid; it fails when the player
\* has not opened, the meld index is out of range, the slot holds no joker, the
\* hand card is a joker or is not in the hand, or the meld with the replacement
\* would be invalid.
C33_JokerSwapEffect ==
    \A tableMeldIndex \in MeldIndexArgs(st), slot \in JokerSlotArgs(st),
       cardId \in CardIdArgs(st) :
        LET result == swapJoker(st, tableMeldIndex, slot, cardId)
            t == result.state
            cur == st.currentPlayerIndex + 1
            before == st.tableMelds[tableMeldIndex + 1].cards
            after == t.tableMelds[tableMeldIndex + 1].cards
            handCard == FindById(CurrentHand(st), cardId)
        IN  /\ SwapMustFail(st, tableMeldIndex, slot, cardId) => ~result.success
            /\ result.success =>
                  /\ ~handCard.isJoker
                  /\ after = [before EXCEPT ![slot + 1] = handCard]
                  /\ before[slot + 1].isJoker
                  /\ before[slot + 1].id \in HandIds(t.players[cur].hand)
                  /\ cardId \notin HandIds(t.players[cur].hand)
                  /\ Len(t.players[cur].hand) = Len(st.players[cur].hand)
                  /\ st.phase = MELD
                  /\ t.phase = MELD
                  /\ Len(t.tableMelds) = Len(st.tableMelds)
                  /\ \A m \in 1..Len(st.tableMelds) :
                        m # tableMeldIndex + 1 => t.tableMelds[m] = st.tableMelds[m]
                  /\ classifyMeld(after) \in {"sequence", "group"}

\* the swapper holds the joker that lay in the meld
C33_Witness ==
    /\ st.lastAction.type = "joker_swap"
    /\ st.phase = MELD
    /\ \E k \in 1..Len(CurrentHand(st)) : CurrentHand(st)[k].isJoker
    /\ \A m \in 1..Len(st.tableMelds) :
          \A k \in 1..Len(st.tableMelds[m].cards) : ~st.tableMelds[m].cards[k].isJoker

\* t differs from s at most in what belongs to the current player of s and in
\* the shared piles: the other hands and hasOpened flags, all scores and all
\* eliminated flags are those of s
OthersUntouched(s, t) ==
    \A i \in 1..Len(s.players) :
        /\ i - 1 # s.currentPlayerIndex =>
              /\ t.players[i].hand = s.players[i].hand
              /\ t.players[i].hasOpened = s.players[i].hasOpened
        /\ t.players[i].score = s.players[i].score
        /\ t.players[i].eliminated = s.players[i].eliminated

\* the states the entry points of a turn lead to from s, discard aside
TurnResults(s) ==
    {drawFromStock(s, rnd).state : rnd \in RandomValues}
    \cup {drawFromDiscard(s).state}
    \cup {playMelds(s, meldCardIds).state : meldCardIds \in PlayMeldsArgs(s)}
    \cup {addToTableMeld(s, a[1], a[2], a[3]).state :
             a \in MeldIndexArgs(s) \X IdGroups(s, 1, MaxGroupLen - 1) \X Positions}
    \cup {swapJoker(s, a[1], a[2], a[3]).state :
             a \in MeldIndexArgs(s) \X JokerSlotArgs(s) \X CardIdArgs(s)}
    \cup {skipMeld(s)}

DiscardResults(s) == {discard(s, cardId).state : cardId \in DiscardArgs(s)}

\* the round was running in s and is over in t
EndsRound(s, t) == ~RoundIsOver(s) /\ RoundIsOver(t)

\* C34 as stated: drawFromStock, drawFromDiscard, playMelds, extendMeld,
\* swapJoker, skipMeld and a discard that does not end the round leave the hand
\* and hasOpened flag of every player other than the current player unchanged,
\* and leave every player's score and eliminated flag unchanged.
C34_OnlyActorAffectedStated ==
    /\ \A t \in TurnResults(st) : OthersUntouched(st, t)
    /\ \A t \in DiscardResults(st) : ~EndsRound(st, t) => OthersUntouched(st, t)

\* C34, amended: every one of these entry points, when it does not end the round,
\* leaves the hand and hasOpened flag of every player other than the current
\* player unchanged, and leaves every player's score and eliminated flag
\* unchanged.
C34_OnlyActorAffected ==
    \A t \in TurnResults(st) \cup DiscardResults(st) :
        ~EndsRound(st, t) => OthersUntouched(st, t)

\* a player has drawn from the discard pile while another player holds cards
C34_Witness ==
    /\ st.lastAction.type = "draw"
    /\ st.lastAction.source = "discard"
    /\ st.phase = MELD
    /\ st.drawnCard.id \in HandIds(CurrentHand(st))
    /\ \E i \in 1..Len(st.players) :
          i - 1 # st.currentPlayerIndex /\ Len(st.players[i].hand) > 0

(***************************************************************************)
(* Deals of the full deck under the settings mergeConfig lets through      *)
(***************************************************************************)
\* a setting the caller leaves out, and one the caller gives
NotGiven == [given |-> FALSE, value |-> 0]
Given(n) == [given |-> TRUE, value |-> n]

Clamp(lo, hi, n) == MathMaxOf(lo, MathMinOf(hi, n))

\* mergeConfig: the defaults overridden by what is given, then clamped
mergeConfig(overrides) ==
    LET Pick(field, default) == IF field.given THEN field.value ELSE default
    IN  [POINTS_LIMIT |-> Clamp(50, 2000, Pick(overrides.POINTS_LIMIT, 501)),
         JOKER_COUNT |-> Clamp(0, 10, Pick(overrides.JOKER_COUNT, 4)),
         HAND_SIZE_FIRST |-> Clamp(7, 20, Pick(overrides.HAND_SIZE_FIRST, 14)),
         HAND_SIZE_OTHER |-> Clamp(7, 20, Pick(overrides.HAND_SIZE_OTHER, 13)),
         OPEN_REQUIREMENT |-> Pick(overrides.OPEN_REQUIREMENT, 51),
         REQUIRE_OPENING |-> TRUE]

\* createDeck over the four suits and thirteen ranks
FullDeck(jokerCount) ==
    LET perCopy == Len(SUITS) * Len(RANKS)
        naturals == [k \in 1..(2 * perCopy) |->
                        [id |-> k,
                         rank |-> RANKS[((k - 1) % Len(RANKS)) + 1],
                         suit |-> SUITS[(((k - 1) % perCopy) \div Len(RANKS)) + 1],
                         isJoker |-> FALSE]]
        clampedJokers == MathMaxOf(0, MathMinOf(10, jokerCount))
    IN  naturals \o [i \in 1..clampedJokers |->
                        [id |-> Len(naturals) + i, rank |-> "JOKER",
                         suit |-> "", isJoker |-> TRUE]]

\* the passes i = hi, hi - 1, .., lo of the loop of shuffleDeck, taken in two halves
RECURSIVE shuffleSteps(_, _, _, _)
shuffleSteps(deck, hi, lo, rnd) ==
    IF hi < lo THEN deck
    ELSE IF hi = lo THEN Swap(deck, hi + 1, RandomIndex(rnd, hi + 1) + 1)
    ELSE LET mid == (hi + lo) \div 2
             upper == {shuffleSteps(deck, hi, mid + 1, rnd)}
         IN  CHOOSE shuffled \in {shuffleSteps(d, mid, lo, rnd) : d \in upper} : TRUE

\* pass number k of the loops of dealCards: round k \div n, player k % n
dealStep(dealt, counts, k) ==
    LET n == Len(counts)
        round == k \div n
        p == k % n
    IN  IF round < counts[p + 1] /\ Len(dealt.stock) > 0
        THEN [hands |-> [dealt.hands EXCEPT ![p + 1] = Append(@, Head(dealt.stock))],
              stock |-> Tail(dealt.stock)]
        ELSE dealt

\* the passes lo, lo + 1, .., hi of the loops of dealCards, taken in two halves
RECURSIVE dealSteps(_, _, _, _)
dealSteps(dealt, counts, lo, hi) ==
    IF hi < lo THEN dealt
    ELSE IF hi = lo THEN dealStep(dealt, counts, lo)
    ELSE LET mid == (hi + lo) \div 2
             lower == {dealSteps(dealt, counts, lo, mid)}
         IN  CHOOSE result \in {dealSteps(d, counts, mid + 1, hi) : d \in lower} : TRUE

\* shuffleDeck and dealCards on the full deck
shuffleFullDeck(deck, rnd) == shuffleSteps(deck, Len(deck) - 1, 1, rnd)

dealFullDeck(deck, counts) ==
    dealSteps([hands |-> [i \in 1..Len(counts) |-> <<>>], stock |-> deck], counts,
              0, MathMax(counts) * Len(counts) - 1)

\* the deal of startRound: the counts of the players and dealCards on the shuffled deck
DealOfRound(cfg, numPlayers, startingPlayerIndex, rnd) ==
    LET deck == shuffleFullDeck(FullDeck(cfg.JOKER_COUNT), rnd)
        handFirst == IF cfg.HAND_SIZE_FIRST # 0 THEN cfg.HAND_SIZE_FIRST ELSE 14
        handOther == IF cfg.HAND_SIZE_OTHER # 0 THEN cfg.HAND_SIZE_OTHER ELSE 13
        counts == [i \in 1..numPlayers |->
                      IF i - 1 = startingPlayerIndex THEN handFirst ELSE handOther]
    IN  dealFullDeck(deck, counts)

\* the hand sizes and joker counts a caller asks for: left out, below, at the ends
\* of, inside and above the range mergeConfig clamps to
HandSizeSettings == {NotGiven} \cup {Given(n) : n \in {5, 7, 8, 13, 14, 20, 25}}
JokerSettings == {NotGiven, Given(0), Given(12)}
PlayerCounts == 2..4

NoDeal == [hands |-> <<>>, stock |-> <<>>]

InitDeal ==
    /\ \E first \in HandSizeSettings, other \in HandSizeSettings, jokers \in JokerSettings,
          numPlayers \in PlayerCounts :
          pf = [overrides |-> [POINTS_LIMIT |-> NotGiven, JOKER_COUNT |-> jokers,
                               HAND_SIZE_FIRST |-> first, HAND_SIZE_OTHER |-> other,
                               OPEN_REQUIREMENT |-> NotGiven],
                numPlayers |-> numPlayers,
                startingPlayerIndex |-> 0,
                dealt |-> FALSE,
                deal |-> NoDeal]
    /\ st = createGame(2, ModelConfig(4, 2, TRUE))
    /\ openedBefore = FALSE
    /\ turns = 0

\* createGame and startRound: the settings are merged and the round is dealt
Deal ==
    /\ ~pf.dealt
    /\ \E rnd \in RandomValues :
          pf' = [pf EXCEPT !.dealt = TRUE,
                           !.deal = DealOfRound(mergeConfig(pf.overrides), pf.numPlayers,
                                                pf.startingPlayerIndex, rnd)]
    /\ UNCHANGED <<st, openedBefore, turns>>

\* nextRound: the starting player rotates and the round is dealt again
DealNext ==
    /\ pf.dealt
    /\ pf.startingPlayerIndex < pf.numPlayers - 1
    /\ \E rnd \in RandomValues :
          pf' = [pf EXCEPT !.startingPlayerIndex = @ + 1,
                           !.deal = DealOfRound(mergeConfig(pf.overrides), pf.numPlayers,
                                                pf.startingPlayerIndex + 1, rnd)]
    /\ UNCHANGED <<st, openedBefore, turns>>

NextDeal == Deal \/ DealNext

SpecDeal == InitDeal /\ [][NextDeal]_vars

\* C35: after every deal, for every configuration inside the allowed clamping
\* ranges, the starting player holds exactly one card more than each other
\* player, and the stock holds the rest of the deck.
C35_DealSizes ==
    pf.dealt =>
        LET hands == pf.deal.hands
            deck == FullDeck(mergeConfig(pf.overrides).JOKER_COUNT)
        IN  /\ \A i \in 1..pf.numPlayers :
                  i - 1 # pf.startingPlayerIndex =>
                      Len(hands[pf.startingPlayerIndex + 1]) = Len(hands[i]) + 1
            /\ IdBag(Flat(hands) \o pf.deal.stock) = IdBag(deck)

\* on the decks of the other specifications the halved loops give what
\* shuffleDeck and dealCards give
HalvedLoopsAgree ==
    \A rnd \in RandomValues, first \in 1..4, other \in 1..4 :
        LET deck == createDeck(1)
        IN  /\ shuffleFullDeck(deck, rnd) = shuffleDeck(deck, rnd)
            /\ dealFullDeck(deck, <<first, other, other>>)
                  = dealCards(deck, <<first, other, other>>)

\* the stock holds the rest of the deck after every deal
StockHoldsTheRest ==
    pf.dealt =>
        IdBag(Flat(pf.deal.hands) \o pf.deal.stock)
            = IdBag(FullDeck(mergeConfig(pf.overrides).JOKER_COUNT))

(***************************************************************************)
(* The server with requests from every player, reorder_hand among them     *)
(***************************************************************************)
\* the card ids a reorder_hand request carries: the hand of the player as it
\* lies, with its first two cards exchanged, turned round, with the last id
\* left out, with the first id named twice, and with an id no card has
ReorderArgs(s, playerIndex) ==
    IF playerIndex < 0 \/ playerIndex >= Len(s.players) THEN {<<>>}
    ELSE LET hand == s.players[playerIndex + 1].hand
             n == Len(hand)
             ids == [i \in 1..n |-> hand[i].id]
             exchanged == [i \in 1..n |-> IF i = 1 /\ n >= 2 THEN ids[2]
                                          ELSE IF i = 2 THEN ids[1] ELSE ids[i]]
             turned == [i \in 1..n |-> ids[n + 1 - i]]
             shortened == [i \in 1..(IF n = 0 THEN 0 ELSE n - 1) |-> ids[i]]
             doubled == [i \in 1..n |-> IF i = 2 THEN ids[1] ELSE ids[i]]
             foreign == [i \in 1..n |-> IF i = 1 THEN NullCard.id ELSE ids[i]]
         IN  {ids, exchanged, turned, shortened, doubled, foreign}

NoReorder == [playerIndex |-> NoPlayer, success |-> FALSE, count |-> 0]

\* reorder_hand requests in one behaviour
MaxReorders == 1

\* three players dealt 1 and 2 cards, and two players dealt 2 and 1 cards
\* without the opening requirement
SerialGames ==
    {[numPlayers |-> 3, config |-> ModelConfig(1, 2, TRUE)],
     [numPlayers |-> 2, config |-> ModelConfig(2, 1, FALSE)]}

InitSerial ==
    /\ \E game \in SerialGames, rnd \in RandomValues :
          st = startGame(game.numPlayers, game.config, rnd)
    /\ openedBefore = FALSE
    /\ turns = 0
    /\ pf = NoReorder

\* reorder_hand from any player; pf keeps who asked last and whether it was granted
SrvReorderHand ==
    \E playerIndex \in PlayerArgs(st) :
        \E cardIds \in ReorderArgs(st, playerIndex) :
            LET result == handleActionReorder(st, playerIndex, cardIds)
            IN  /\ pf.count < MaxReorders
                /\ st' = result.state
                /\ pf' = [playerIndex |-> playerIndex, success |-> result.success,
                          count |-> pf.count + 1]
                /\ UNCHANGED <<openedBefore, turns>>

NextSerial == NextServer \/ SrvReorderHand

SpecSerial == InitSerial /\ [][NextSerial]_vars

\* what the handlers of the game actions would answer in state s
GameActionResults(s) ==
    {handleDrawStock(s, rnd) : rnd \in RandomValues}
    \cup {handleDrawDiscard(s), handleSkipMeld(s)}
    \cup {handlePlayMelds(s, meldCardIds) : meldCardIds \in Srv_PlayMeldsArgs(s)}
    \cup {handleExtendMeld(s, tableMeldIndex, cardIds, position) :
              tableMeldIndex \in MeldIndexArgs(s),
              cardIds \in IdGroups(s, 1, MaxGroupLen - 1), position \in Positions}
    \cup {handleJokerSwap(s, tableMeldIndex, slot, cardId) :
              tableMeldIndex \in MeldIndexArgs(s), slot \in JokerSlotArgs(s),
              cardId \in CardIdArgs(s)}
    \cup {handleRepositionJoker(s, meldIndex, jokerCardIndex) :
              meldIndex \in MeldIndexArgs(s), jokerCardIndex \in JokerSlotArgs(s)}
    \cup {handleDiscard(s, cardId) : cardId \in DiscardArgs(s)}

\* t differs from s at most in the order of the hand of player playerIndex
OwnHandPermuted(s, t, playerIndex) ==
    /\ t = [s EXCEPT !.players[playerIndex + 1].hand = t.players[playerIndex + 1].hand]
    /\ Len(t.players[playerIndex + 1].hand) = Len(s.players[playerIndex + 1].hand)
    /\ IdBag(t.players[playerIndex + 1].hand) = IdBag(s.players[playerIndex + 1].hand)
    /\ \A k \in 1..Len(t.players[playerIndex + 1].hand) :
          \E i \in 1..Len(s.players[playerIndex + 1].hand) :
              t.players[playerIndex + 1].hand[k] = s.players[playerIndex + 1].hand[i]

\* C36: whatever requests of whatever players came before, handleAction answers a
\* game action (any action but reorder_hand) from a player who is not the current
\* player with success = false and 'Not your turn' and leaves the game state as it
\* was; a reorder_hand from any player only permutes that player's own hand.
C36_TurnSerialised ==
    \A playerIndex \in 0..(Len(st.players) - 1) :
        /\ playerIndex # st.currentPlayerIndex =>
               \A result \in GameActionResults(st) :
                   handleAction(st, playerIndex, result) = Fail(st, "Not your turn")
        /\ \A cardIds \in ReorderArgs(st, playerIndex) :
               LET result == handleActionReorder(st, playerIndex, cardIds)
               IN  /\ OwnHandPermuted(st, result.state, playerIndex)
                   /\ ~result.success => result.state = st

\* a player who is not at turn has had the hand reordered, into another order,
\* and a game action of the current player would change the state
C36_Witness ==
    /\ pf.success
    /\ pf.playerIndex # st.currentPlayerIndex
    /\ \E cardIds \in ReorderArgs(st, pf.playerIndex) :
          handleActionReorder(st, pf.playerIndex, cardIds).state # st
    /\ \E result \in GameActionResults(st) : result.success /\ result.state # st

(***************************************************************************)
(* Sockets of the server: connections, reconnect messages, close and error *)
(* events of the players of one room                                       *)
(***************************************************************************)
\* sockets the server sees in one behaviour, and the players of the room
MaxSockets == 4
RoomPlayers == 2

NoSocket == 0
SocketIds == 1..MaxSockets
PlayerIds == 1..RoomPlayers

\* a socket is still to come, open (readyState 1), dropped with its close event
\* not yet handled, or closed
Unused == "unused"
Open == "open"
Closing == "closing"
Closed == "closed"

FindPlayer(room, playerId) ==
    IF \E i \in 1..Len(room.players) : room.players[i].id = playerId
    THEN CHOOSE i \in 1..Len(room.players) :
             /\ room.players[i].id = playerId
             /\ \A k \in 1..(i - 1) : room.players[k].id # playerId
    ELSE 0

\* roomManager.markDisconnected
markDisconnected(room, playerId) ==
    LET i == FindPlayer(room, playerId)
    IN  IF ~room.exists \/ i = 0 THEN room
        ELSE [room EXCEPT !.players[i].connected = FALSE, !.players[i].ws = NoSocket]

\* roomManager.reconnectPlayer
reconnectPlayer(room, known, playerId, newWs) ==
    LET i == FindPlayer(room, playerId)
    IN  IF ~known \/ ~room.exists THEN [room |-> room, error |-> "Room not found"]
        ELSE IF i = 0 THEN [room |-> room, error |-> "Player not found in room"]
        ELSE [room |-> [room EXCEPT !.players[i].ws = newWs,
                                    !.players[i].connected = TRUE],
              error |-> ""]

\* roomManager.leaveRoom
leaveRoom(room, playerId) ==
    LET left == SelectSeq(room.players, LAMBDA q : q.id # playerId)
    IN  IF ~room.exists THEN room
        ELSE IF Len(left) = 0 THEN [room EXCEPT !.players = left, !.exists = FALSE]
        ELSE [room EXCEPT !.players = left,
                          !.host = IF room.host = playerId THEN left[1].id ELSE room.host]

\* sendToPlayer: who gets a broadcast, as the set of sockets written to
Receivers(c) ==
    {c.room.players[i].ws : i \in {k \in 1..Len(c.room.players) :
        /\ c.room.players[k].ws # NoSocket
        /\ c.room.players[k].connected
        /\ c.sockets[c.room.players[k].ws].readyState = Open}}

\* handleReconnect on socket `socket` with the message {roomCode, playerId};
\* `known` says whether roomCode is the code of the room
handleReconnect(c, socket, known, playerId) ==
    LET result == reconnectPlayer(c.room, known, playerId, socket)
    IN  IF result.error # "" THEN c
        ELSE [c EXCEPT !.room = result.room,
                       !.sockets[socket].currentPlayerId = playerId,
                       !.reconnectedOn[playerId] = socket]

\* handleDisconnect on socket `socket`
handleDisconnect(c, socket) ==
    LET currentPlayerId == c.sockets[socket].currentPlayerId
    IN  IF currentPlayerId = NoPlayer THEN c
        ELSE IF ~c.room.exists THEN c
        ELSE [c EXCEPT !.room = IF c.room.status = "playing"
                                 THEN markDisconnected(c.room, currentPlayerId)
                                 ELSE leaveRoom(c.room, currentPlayerId),
                       !.sockets[socket].currentPlayerId = NoPlayer]

\* a running game: every player joined on a socket of their own
InitConn ==
    /\ pf = [room |-> [exists |-> TRUE, status |-> "playing", host |-> 1,
                       players |-> [i \in PlayerIds |->
                                       [id |-> i, ws |-> i, connected |-> TRUE]]],
             sockets |-> [k \in SocketIds |->
                             IF k \in PlayerIds
                             THEN [readyState |-> Open, currentPlayerId |-> k]
                             ELSE [readyState |-> Unused, currentPlayerId |-> NoPlayer]],
             reconnectedOn |-> [i \in PlayerIds |-> NoSocket]]
    /\ \E rnd \in RandomValues : st = startGame(RoomPlayers, ModelConfig(2, 1, FALSE), rnd)
    /\ openedBefore = FALSE
    /\ turns = 0

ConnStep(c) == pf' = c /\ UNCHANGED <<st, openedBefore, turns>>

\* wss.on('connection'): the next socket opens
Connection ==
    \E socket \in SocketIds :
        /\ pf.sockets[socket].readyState = Unused
        /\ \A k \in 1..(socket - 1) : pf.sockets[k].readyState # Unused
        /\ ConnStep([pf EXCEPT !.sockets[socket].readyState = Open])

\* a reconnect message arrives on an open socket
ReconnectMessage ==
    \E socket \in SocketIds, known \in BOOLEAN, playerId \in PlayerIds \cup {RoomPlayers + 1} :
        /\ pf.sockets[socket].readyState = Open
        /\ ConnStep(handleReconnect(pf, socket, known, playerId))

\* a leave_room message arrives on an open socket
LeaveMessage ==
    \E socket \in SocketIds :
        /\ pf.sockets[socket].readyState = Open
        /\ ConnStep(handleDisconnect(pf, socket))

\* the connection of a socket breaks; its close event waits to be handled
Drop ==
    \E socket \in SocketIds :
        /\ pf.sockets[socket].readyState = Open
        /\ ConnStep([pf EXCEPT !.sockets[socket].readyState = Closing])

\* ws.on('error') of a socket whose connection broke
ErrorEvent ==
    \E socket \in SocketIds :
        /\ pf.sockets[socket].readyState = Closing
        /\ ConnStep(handleDisconnect(pf, socket))

\* ws.on('close')
CloseEvent ==
    \E socket \in SocketIds :
        /\ pf.sockets[socket].readyState = Closing
        /\ ConnStep([handleDisconnect(pf, socket) EXCEPT !.sockets[socket].readyState = Closed])

NextConn ==
    \/ Connection
    \/ ReconnectMessage
    \/ LeaveMessage
    \/ Drop
    \/ ErrorEvent
    \/ CloseEvent

SpecConn == InitConn /\ [][NextConn]_vars

\* player playerId reconnected last on `socket`, which is open and still speaks
\* for the player, and no other socket is left that speaks for the player: the
\* close or error events of the player's earlier sockets have been handled
ReconnectSettled(c, playerId, socket) ==
    /\ socket # NoSocket
    /\ c.reconnectedOn[playerId] = socket
    /\ c.sockets[socket].readyState = Open
    /\ c.sockets[socket].currentPlayerId = playerId
    /\ \A other \in SocketIds \ {socket} : c.sockets[other].currentPlayerId # playerId
    /\ \E other \in SocketIds \ {socket} : c.sockets[other].readyState = Closed

\* C37: when a player of a running game has reconnected on a new socket and the
\* close (or error) event of the player's previous socket has been handled,
\* before or after the reconnect, the player is marked connected and bound to
\* the new socket, and so is among the receivers of a broadcast.
C37_ReconnectSurvivesStaleClose ==
    \A playerId \in PlayerIds, socket \in SocketIds :
        ReconnectSettled(pf, playerId, socket) =>
            LET i == FindPlayer(pf.room, playerId)
            IN  /\ i # 0
                /\ pf.room.players[i].connected
                /\ pf.room.players[i].ws = socket
                /\ socket \in Receivers(pf)

(***************************************************************************)
(* The network client: connect, the close handler, attemptReconnect and    *)
(* disconnect                                                              *)
(***************************************************************************)
MAX_RETRIES == 3
BASE_DELAY_MS == 1000

\* sockets the client creates in one behaviour
MaxClientSockets == 6

Connecting == "connecting"

\* connect(url): the url is kept, the flags are reset and a socket is made,
\* unless the WebSocket constructor throws
connect(c, throws) ==
    LET reset == [c EXCEPT !.lastUrl = TRUE, !.intentionalClose = FALSE, !.retryCount = 0]
    IN  IF throws THEN reset
        ELSE [reset EXCEPT !.sockets = Append(c.sockets, Connecting),
                           !.socket = Len(c.sockets) + 1]

\* attemptReconnect: the timer is kept by its delay
attemptReconnect(c) ==
    IF c.intentionalClose \/ c.retryCount >= MAX_RETRIES \/ ~c.lastUrl THEN c
    ELSE [c EXCEPT !.retryCount = c.retryCount + 1,
                   !.timers = Append(c.timers, BASE_DELAY_MS * 2 ^ ((c.retryCount + 1) - 1))]

\* the listener of 'open'
onOpen(c) == [c EXCEPT !.retryCount = 0]

\* the listener of 'close'
onClose(c) == IF ~c.intentionalClose THEN attemptReconnect(c) ELSE c

\* disconnect()
disconnect(c) ==
    LET flagged == [c EXCEPT !.intentionalClose = TRUE]
    IN  IF c.socket # NoSocket
        THEN [flagged EXCEPT !.sockets[c.socket] =
                                 IF @ \in {Open, Connecting} THEN Closing ELSE @,
                             !.socket = NoSocket]
        ELSE flagged

RemoveAt(seq, i) == [k \in 1..(Len(seq) - 1) |-> IF k < i THEN seq[k] ELSE seq[k + 1]]

\* the module as loaded; of what happened the model keeps the delays of the
\* automatic attempts made since a connection was last open or asked for, whether
\* disconnect() was the last call of the user, and whether an automatic attempt
\* was made after it
InitClient ==
    /\ pf = [sockets |-> <<>>, socket |-> NoSocket, intentionalClose |-> FALSE,
             retryCount |-> 0, lastUrl |-> FALSE, timers |-> <<>>,
             attempts |-> <<>>, disconnected |-> FALSE, attemptAfterDisconnect |-> FALSE]
    /\ \E rnd \in RandomValues : st = startGame(RoomPlayers, ModelConfig(2, 1, FALSE), rnd)
    /\ openedBefore = FALSE
    /\ turns = 0

\* the user calls connect(url), at the start or after disconnect()
UserConnect ==
    \E throws \in BOOLEAN :
        /\ Len(pf.sockets) < MaxClientSockets
        /\ pf.socket = NoSocket
        /\ pf.timers = <<>>
        /\ ConnStep([connect(pf, throws) EXCEPT !.attempts = <<>>, !.disconnected = FALSE])

\* a socket reaches the server
SocketOpens ==
    \E socket \in 1..Len(pf.sockets) :
        /\ pf.sockets[socket] = Connecting
        /\ ConnStep([onOpen([pf EXCEPT !.sockets[socket] = Open]) EXCEPT !.attempts = <<>>])

\* a socket does not reach the server, or loses it, or has been closed by
\* disconnect(): its 'close' event
SocketCloses ==
    \E socket \in 1..Len(pf.sockets) :
        /\ pf.sockets[socket] \in {Connecting, Open, Closing}
        /\ ConnStep(onClose([pf EXCEPT !.sockets[socket] = Closed]))

\* a timer of attemptReconnect runs out: connect(lastUrl)
TimerFires ==
    \E i \in 1..Len(pf.timers), throws \in BOOLEAN :
        /\ Len(pf.sockets) < MaxClientSockets
        /\ ConnStep([connect([pf EXCEPT !.timers = RemoveAt(pf.timers, i)], throws)
                        EXCEPT !.attempts = Append(pf.attempts, pf.timers[i]),
                               !.attemptAfterDisconnect = @ \/ pf.disconnected])

\* the user calls disconnect()
UserDisconnect == ConnStep([disconnect(pf) EXCEPT !.disconnected = TRUE])

NextClient ==
    \/ UserConnect
    \/ SocketOpens
    \/ SocketCloses
    \/ TimerFires
    \/ UserDisconnect

SpecClient == InitClient /\ [][NextClient]_vars

\* at most MAX_RETRIES automatic attempts in a row without an open connection
RetriesBounded == Len(pf.attempts) <= MAX_RETRIES

\* the k-th attempt in a row was delayed by BASE_DELAY_MS * 2^(k-1)
DelaysDouble ==
    \A k \in 1..Len(pf.attempts) : pf.attempts[k] = BASE_DELAY_MS * 2 ^ (k - 1)

\* no automatic attempt after disconnect()
QuietAfterDisconnect == ~pf.attemptAfterDisconnect

\* C38: after an unintentional close the client makes at most MAX_RETRIES = 3
\* automatic reconnection attempts in a row that do not reach an open connection,
\* the k-th delayed by BASE_DELAY_MS * 2^(k-1), and then stops; after
\* disconnect() no automatic reconnection is attempted.
C38_BoundedReconnection == RetriesBounded /\ DelaysDouble /\ QuietAfterDisconnect

(***************************************************************************)
(* The server with its turn timer                                          *)
(***************************************************************************)
TurnPhases == {DRAW, MELD, DISCARD}

\* handleTimerExpired, called with the timer cleared; rnd is Math.random() of the
\* automatic discard; `timer` says whether a turn timer runs afterwards
handleTimerExpired(state, rnd) ==
    LET cur == state.currentPlayerIndex
        s1 == IF state.phase = DRAW /\ Len(state.stock) > 0
              THEN [state EXCEPT !.stock = Tail(state.stock),
                                 !.players[cur + 1].hand = Append(@, Head(state.stock)),
                                 !.phase = DISCARD]
              ELSE state
        hand == s1.players[cur + 1].hand
    IN  IF Len(hand) > 0 /\ s1.phase \in {MELD, DISCARD}
        THEN LET randomIdx == RandomIndex(rnd, Len(hand))
                 thrown == [s1 EXCEPT
                               !.players[cur + 1].hand =
                                   SubSeq(hand, 1, randomIdx) \o
                                   SubSeq(hand, randomIdx + 2, Len(hand)),
                               !.discardPile = Append(@, hand[randomIdx + 1])]
             IN  IF Len(thrown.players[cur + 1].hand) = 0
                 THEN [state |-> Srv_endRound(thrown, cur, FALSE), timer |-> FALSE]
                 ELSE [state |-> Srv_advanceTurn([thrown EXCEPT !.phase = DRAW]),
                       timer |-> TRUE]
        ELSE [state |-> s1, timer |-> FALSE]

\* the end of handleAction: the timer is cleared when the round is over and
\* started again after a discard
TimerAfterAction(timer, action, result) ==
    IF ~result.success THEN timer
    ELSE IF result.state.phase = ROUND_OVER THEN FALSE
    ELSE IF action = "discard" THEN TRUE
    ELSE timer

\* startGame: the first round is dealt and startRound starts the timer
\* two players dealt 2 cards each without the opening requirement, and three
\* players dealt 1 and 2 cards
TimerGames ==
    {[numPlayers |-> 2, config |-> ModelConfig(2, 2, FALSE)],
     [numPlayers |-> 3, config |-> ModelConfig(1, 2, TRUE)]}

InitTimer ==
    /\ \E game \in TimerGames, rnd \in RandomValues :
          st = startGame(game.numPlayers, game.config, rnd)
    /\ openedBefore = FALSE
    /\ turns = 0
    /\ pf = [timer |-> TRUE]

\* a game action of the current player through handleAction
TimedStep(action, result) ==
    /\ turns < MaxTurns
    /\ st' = result.state
    /\ pf' = [timer |-> TimerAfterAction(pf.timer, action, result)]
    /\ openedBefore' = TurnOpened(st, result.state)
    /\ turns' = IF result.state.currentPlayerIndex # st.currentPlayerIndex
                THEN turns + 1 ELSE turns

TimedDrawStock ==
    \E rnd \in RandomValues : TimedStep("draw_stock", handleDrawStock(st, rnd))

TimedDrawDiscard == TimedStep("draw_discard", handleDrawDiscard(st))

TimedPlayMelds ==
    \E meldCardIds \in Srv_PlayMeldsArgs(st) :
        TimedStep("play_melds", handlePlayMelds(st, meldCardIds))

TimedExtendMeld ==
    \E tableMeldIndex \in MeldIndexArgs(st), cardIds \in IdGroups(st, 1, MaxGroupLen - 1),
       position \in Positions :
        TimedStep("extend_meld", handleExtendMeld(st, tableMeldIndex, cardIds, position))

TimedSkipMeld == TimedStep("skip_meld", handleSkipMeld(st))

TimedDiscard ==
    \E cardId \in DiscardArgs(st) : TimedStep("discard", handleDiscard(st, cardId))

\* the last tick of the interval of startTurnTimer: the timer is cleared and
\* handleTimerExpired is called
TimerExpires ==
    \E rnd \in RandomValues :
        LET result == handleTimerExpired(st, rnd)
        IN  /\ pf.timer
            /\ turns < MaxTurns
            /\ st' = result.state
            /\ pf' = [timer |-> result.timer]
            /\ openedBefore' = TurnOpened(st, result.state)
            /\ turns' = IF result.state.currentPlayerIndex # st.currentPlayerIndex
                        THEN turns + 1 ELSE turns

\* next_round of the host: nextRound, whose startRound starts the timer
TimedNextRound ==
    /\ st.roundNumber < MaxRounds
    /\ \E rnd \in RandomValues :
          /\ st' = Srv_nextRound(st, rnd)
          /\ pf' = [timer |-> IF st.phase \in {ROUND_OVER, GAME_OVER} THEN TRUE ELSE pf.timer]
          /\ openedBefore' = IF st'.roundNumber # st.roundNumber THEN FALSE ELSE openedBefore
          /\ UNCHANGED turns

NextTimer ==
    \/ TimedDrawStock
    \/ TimedDrawDiscard
    \/ TimedPlayMelds
    \/ TimedExtendMeld
    \/ TimedSkipMeld
    \/ TimedDiscard
    \/ TimerExpires
    \/ TimedNextRound

SpecTimer == InitTimer /\ [][NextTimer]_vars

\* what C39 asks of the state after an expiry handled in state s
ExpiryEndsTurn(s, rnd) ==
    LET result == handleTimerExpired(s, rnd)
    IN  \/ result.state.phase \in {ROUND_OVER, GAME_OVER}
        \/ /\ result.state.phase = DRAW
           /\ result.state.currentPlayerIndex = FirstActiveAfter(s, s.currentPlayerIndex)
           /\ result.timer

\* a turn is never without a running timer
TimerRunsInTurn == st.phase \in TurnPhases => pf.timer

\* C39: whenever the turn timer expires while the phase is DRAW, MELD or DISCARD,
\* after the expiry is handled either the round is over or the turn has passed to
\* the next player who is not eliminated, in phase DRAW with a new turn timer
\* running; the game never stays in a player's turn with no timer running.
C39_TimeoutEndsTurn ==
    /\ (pf.timer /\ st.phase \in TurnPhases) =>
           \A rnd \in RandomValues : ExpiryEndsTurn(st, rnd)
    /\ TimerRunsInTurn
====
